---- MODULE Spec2Model ----
(***************************************************************************)
(* Grid position / reordering subsystem of campus_app.                     *)
(*                                                                         *)
(* The record store is the SQLite schema of database_setup.create_database *)
(* (image: CHECK 1..15 and UNIQUE(campus_id, sort_order); video: neither). *)
(* The index widgets keep an in-memory snapshot of the store and a grid    *)
(* of cards derived from it; drag moves, edit-saves, deletes and uploads   *)
(* write to the store.                                                     *)
(***************************************************************************)
EXTENDS Integers, Sequences, FiniteSets, TLC

(***************************************************************************)
(* Bounds of the model.                                                    *)
(***************************************************************************)
\* number of image rows ever inserted (AUTOINCREMENT ids 1..MaxImageId)
MaxImageId == 2
\* number of video rows ever inserted
MaxVideoId == 2
\* StoreSpec starts on containers of at most MaxFew records ...
MaxFew == 3
\* ... and on containers missing at most MaxMissing of the 15 positions
MaxMissing == 2
\* LayoutSpec draws cells of rows 0..MaxLayoutRow
MaxLayoutRow == 8
\* number of campus rows ever inserted (AUTOINCREMENT ids 1..MaxCampusId)
MaxCampusId == 4

(***************************************************************************)
(* Program constants.                                                      *)
(***************************************************************************)
max_cells == 15
SwapSentinel == 999999
card_width == 250
card_height == 300
spacing == 10
margin == 80
margin_x == 20
margin_y == 10
default_columns == 3
min_columns == 2
max_columns == 5
video_max_rows == 10
video_default_columns == 4

\* campuses the user opens: an image container and a video container
ImageCampuses == {1}
VideoCampuses == {3}
\* the image containers of the stores of StoreSpec
StoreCampuses == {1, 2}

\* window widths the resize events deliver (2, 3, 4 and 5 columns)
Widths == {300, 860, 1120, 2000}
\* a width one pixel further along a window drag: still 3 columns
DragWidths == {861}

NoRow == [none |-> TRUE]
NoDrag == [none |-> TRUE]

ImageIds == 1..MaxImageId
VideoIds == 1..MaxVideoId

Max(a, b) == IF a >= b THEN a ELSE b
Min(a, b) == IF a <= b THEN a ELSE b

(***************************************************************************)
(* Grid Layout Engine.                                                     *)
(***************************************************************************)
calculate_responsive_columns(window_width) ==
    LET available_width == window_width - margin
        calculated_columns == available_width \div (card_width + spacing)
    IN  Max(min_columns, Min(max_columns, calculated_columns))

get_max_rows(columns) ==
    (max_cells \div columns) + (IF max_cells % columns > 0 THEN 1 ELSE 0)

\* display_images: the cell a sort_order is rendered at
position_to_cell(sort_order, columns) ==
    << (sort_order - 1) \div columns, (sort_order - 1) % columns >>

\* the cell's index counted from 0
cell_to_position_zero_based(row, col, columns) == row * columns + col

\* move_image: the sort_order a cell stands for
cell_to_position(row, col, columns) == row * columns + col + 1

\* get_grid_position_from_point of the image grid; <<-1, -1>> is "no cell"
get_grid_position_from_point(x, y, columns) ==
    LET adjusted_x == IF x - margin_x < 0 THEN 0 ELSE x - margin_x
        adjusted_y == IF y - margin_y < 0 THEN 0 ELSE y - margin_y
        col == adjusted_x \div (card_width + spacing)
        row == adjusted_y \div (card_height + spacing)
    IN  IF 0 <= row /\ row < get_max_rows(columns) /\ 0 <= col /\ col < columns
        THEN << row, col >>
        ELSE << -1, -1 >>

(***************************************************************************)
(* Record Store: the image table of create_database.                       *)
(***************************************************************************)
VARIABLES
    image,               \* image table: id -> row or NoRow
    image_seq,           \* last AUTOINCREMENT id handed out for image
    page,                \* page shown by MainWindow's stacked widget
    campus_id,           \* ImageIndexWidget.campus_id (0: no widget yet)
    images,              \* ImageIndexWidget.images, the loaded snapshot
    grid,                \* ImageIndexWidget: image_cards, empty_cells and
                         \* current_columns, rebuilt together by display_images
    width,               \* ImageIndexWidget.width()
    position_edit_mode,  \* ImageIndexWidget.position_edit_mode
    drag,                \* mime payload of the drag in progress, or NoDrag
    image_id,            \* image shown by the detail / edit widget (0: none)
    upload,              \* ImageCreateWidget.upload_thread
    upload2,             \* upload_thread of a second ImageCreateWidget on
                         \* the same database file
    video,               \* video table: id -> row or NoRow
    video_seq,           \* last AUTOINCREMENT id handed out for video
    vgrid,               \* VideoIndexWidget: campus_id, video_cards,
                         \* current_columns and manage_mode
    vdrag,               \* mime payload of the video drag in progress
    video_id,            \* video shown by the video edit widget (0: none)
    vupload,             \* VideoCreateWidget.upload_thread
    campus,              \* campus table: id -> row or NoRow
    campus_seq,          \* last AUTOINCREMENT id handed out for campus
    campuses,            \* CampusIndexWidget.campuses, the loaded list
    campus_edit,         \* CampusEditWidget.campus, the loaded row (or NoRow)
    last                 \* the operation that produced this state

image_vars == << image, image_seq, campus_id, images, grid, position_edit_mode,
                 drag, image_id, upload, upload2 >>

video_vars == << video, video_seq, vgrid, vdrag, video_id, vupload >>

campus_vars == << campus, campus_seq, campuses, campus_edit >>

vars == << image_vars, video_vars, campus_vars, page, width, last >>

\* ImageIndexWidget.image_cards: cell -> id of the image of the card
image_cards == grid.image_cards
\* ImageIndexWidget.empty_cells: cell -> sort_order of the EmptyCell
empty_cells == grid.empty_cells
\* ImageIndexWidget.current_columns
current_columns == grid.current_columns

ImageRows(img) == {i \in DOMAIN img : img[i] # NoRow}

RowsOfCampus(img, c) == {i \in ImageRows(img) : img[i].campus_id = c}

\* a CHECK that forgets the upper end of the range
image_check_ok_lower_only(sort_order) == sort_order >= 1

\* CHECK (sort_order >= 1 AND sort_order <= 15)
image_check_ok(sort_order) == sort_order >= 1 /\ sort_order <= 15

\* an image table declared without the UNIQUE constraint
image_unique_ok_missing(img, id, c, sort_order) == TRUE

\* UNIQUE(campus_id, sort_order), for the row id about to hold (c, sort_order)
image_unique_ok(img, id, c, sort_order) ==
    \A j \in ImageRows(img) \ {id} :
        ~(img[j].campus_id = c /\ img[j].sort_order = sort_order)

\* the constraints of CREATE TABLE image
image_table_accepts(img, id, c, sort_order) ==
    image_check_ok(sort_order) /\ image_unique_ok(img, id, c, sort_order)

\* the UPDATE with the wrong WHERE clause (WHERE campus_id = ?): every
\* record of the container is set to sort_order
update_sort_order_of_campus(img, id, sort_order) ==
    IF img[id] = NoRow
    THEN [ok |-> TRUE, image |-> img]
    ELSE LET rows == RowsOfCampus(img, img[id].campus_id)
         IN  IF image_check_ok(sort_order) /\ Cardinality(rows) = 1
             THEN [ok |-> TRUE,
                   image |-> [img EXCEPT ![id].sort_order = sort_order]]
             ELSE [ok |-> FALSE, image |-> img]

\* UPDATE image SET sort_order = ? WHERE id = ?  (one statement)
update_sort_order(img, id, sort_order) ==
    IF img[id] = NoRow
    THEN [ok |-> TRUE, image |-> img]
    ELSE IF image_table_accepts(img, id, img[id].campus_id, sort_order)
         THEN [ok |-> TRUE, image |-> [img EXCEPT ![id].sort_order = sort_order]]
         ELSE [ok |-> FALSE, image |-> img]

\* the query written with COUNT(*) in place of MAX(sort_order)
count_plus_1(img, c) == Cardinality(RowsOfCampus(img, c)) + 1

\* SELECT COALESCE(MAX(sort_order), 0) + 1 FROM image WHERE campus_id = ?
max_sort_order_plus_1(img, c) ==
    LET used == {img[i].sort_order : i \in RowsOfCampus(img, c)}
    IN  IF used = {} THEN 1
        ELSE (CHOOSE m \in used : \A u \in used : u <= m) + 1

\* an allocator that always scans 1..15 for the first free position
first_free_sort_order(img, c) ==
    LET free == {i \in 1..15 :
                    \A j \in RowsOfCampus(img, c) : img[j].sort_order # i}
    IN  IF free # {} THEN CHOOSE i \in free : \A k \in free : i <= k
        ELSE 1

\* Image._get_next_sort_order
Image_get_next_sort_order(img, c) ==
    LET next_order == max_sort_order_plus_1(img, c)
        free == {i \in 1..15 :
                    \A j \in RowsOfCampus(img, c) : img[j].sort_order # i}
    IN  IF next_order > 15
        THEN IF free # {}
             THEN CHOOSE i \in free : \A k \in free : i <= k
             ELSE 1
        ELSE next_order

\* a range check that forgets the lower end
Image_save_validates_upper_only(sort_order) == sort_order <= 15

\* Image.save: the range check both branches make before writing
Image_save_validates(sort_order) == 1 <= sort_order /\ sort_order <= 15

\* an INSERT OR REPLACE: the record that holds the position is overwritten
Image_save_insert_replacing(img, seq, c, sort_order) ==
    IF ~Image_save_validates(sort_order)
    THEN [ok |-> FALSE, raised |-> "ValueError", image |-> img, seq |-> seq]
    ELSE [ok |-> TRUE, raised |-> "",
          image |-> [i \in DOMAIN img |->
                        IF i = seq + 1
                        THEN [campus_id |-> c, sort_order |-> sort_order]
                        ELSE IF img[i] # NoRow /\ img[i].campus_id = c
                                /\ img[i].sort_order = sort_order
                        THEN NoRow
                        ELSE img[i]],
          seq |-> seq + 1]

\* Image.save, new record whose sort_order is already resolved: the INSERT
Image_save_insert(img, seq, c, sort_order) ==
    IF ~Image_save_validates(sort_order)
    THEN [ok |-> FALSE, raised |-> "ValueError", image |-> img, seq |-> seq]
    ELSE IF ~image_table_accepts(img, 0, c, sort_order)
    THEN [ok |-> FALSE, raised |-> "IntegrityError", image |-> img, seq |-> seq]
    ELSE [ok |-> TRUE, raised |-> "",
          image |-> [img EXCEPT ![seq + 1] =
                        [campus_id |-> c, sort_order |-> sort_order]],
          seq |-> seq + 1]

\* Image.save, existing record
Image_save_update(img, id, sort_order) ==
    IF ~Image_save_validates(sort_order)
    THEN [ok |-> FALSE, raised |-> "ValueError", image |-> img]
    ELSE IF img[id] = NoRow
    THEN [ok |-> TRUE, raised |-> "", image |-> img]
    ELSE IF ~image_table_accepts(img, id, img[id].campus_id, sort_order)
    THEN [ok |-> FALSE, raised |-> "IntegrityError", image |-> img]
    ELSE [ok |-> TRUE, raised |-> "",
          image |-> [img EXCEPT ![id].sort_order = sort_order]]

\* a delete that closes the gap: the records of the container above the
\* deleted one move down by one position
Image_delete_compacting(img, id) ==
    [i \in DOMAIN img |->
        IF i = id \/ img[i] = NoRow \/ img[id] = NoRow THEN
            (IF i = id THEN NoRow ELSE img[i])
        ELSE IF img[i].campus_id = img[id].campus_id
                /\ img[i].sort_order > img[id].sort_order
        THEN [img[i] EXCEPT !.sort_order = img[i].sort_order - 1]
        ELSE img[i]]

\* Image.delete
Image_delete(img, id) == [img EXCEPT ![id] = NoRow]

\* ORDER BY sort_order ASC, created_at DESC (later rows have larger ids)
RECURSIVE OrderRows(_, _)
OrderRows(img, ids) ==
    IF ids = {} THEN << >>
    ELSE LET first == CHOOSE i \in ids : \A j \in ids :
                          \/ img[i].sort_order < img[j].sort_order
                          \/ img[i].sort_order = img[j].sort_order /\ i >= j
         IN  << [id |-> first, campus_id |-> img[first].campus_id,
                 sort_order |-> img[first].sort_order] >>
             \o OrderRows(img, ids \ {first})

\* Image.get_by_campus_id
Image_get_by_campus_id(img, c) == OrderRows(img, RowsOfCampus(img, c))

(***************************************************************************)
(* Grid State of the image grid (ImageIndexWidget).                        *)
(***************************************************************************)
NoCells == [c \in {} |-> 0]

\* ImageIndexWidget.find_image_by_sort_order: first match of the snapshot
find_image_by_sort_order(imgs, sort_order) ==
    LET hits == {k \in 1..Len(imgs) : imgs[k].sort_order = sort_order}
    IN  IF hits = {} THEN NoRow
        ELSE imgs[CHOOSE k \in hits : \A h \in hits : k <= h]

\* a display that places the cards and leaves the free positions blank
display_images_cards_only(imgs, w, cur_columns) ==
    LET columns == calculate_responsive_columns(w)
        occ == {so \in 1..max_cells : find_image_by_sort_order(imgs, so) # NoRow}
    IN  IF imgs = << >>
        THEN [image_cards |-> NoCells, empty_cells |-> NoCells,
              current_columns |-> cur_columns]
        ELSE [image_cards |->
                 [cell \in {position_to_cell(so, columns) : so \in occ} |->
                     find_image_by_sort_order(
                         imgs, cell_to_position(cell[1], cell[2], columns)).id],
              empty_cells |-> NoCells,
              current_columns |-> columns]

\* ImageIndexWidget.display_images: the dictionaries it rebuilds
display_images(imgs, w, cur_columns) ==
    IF imgs = << >>
    THEN [image_cards |-> NoCells, empty_cells |-> NoCells,
          current_columns |-> cur_columns]
    ELSE LET columns == calculate_responsive_columns(w)
             max_rows == get_max_rows(columns)
             shown == {so \in 1..max_cells :
                          position_to_cell(so, columns)[1] < max_rows}
             occ == {so \in shown : find_image_by_sort_order(imgs, so) # NoRow}
             \* a later sort_order of the loop overwrites an earlier one
             lastAt(S, cell) ==
                 CHOOSE so \in S :
                     /\ position_to_cell(so, columns) = cell
                     /\ \A t \in S : position_to_cell(t, columns) = cell => t <= so
         IN  [image_cards |->
                 [cell \in {position_to_cell(so, columns) : so \in occ} |->
                     find_image_by_sort_order(imgs, lastAt(occ, cell)).id],
              empty_cells |->
                 [cell \in {position_to_cell(so, columns) : so \in shown \ occ} |->
                     lastAt(shown \ occ, cell)],
              current_columns |-> columns]

\* a swap interrupted after its first UPDATE that keeps what it wrote
swap_without_rollback(img, card_id, target_id, from_sort_order, to_sort_order) ==
    [ok |-> FALSE, image |-> [img EXCEPT ![card_id].sort_order = SwapSentinel]]

\* the three UPDATEs of the swap branch of move_image, in one transaction:
\* committed together, or rolled back together when one raises
swap_transaction(img, card_id, target_id, from_sort_order, to_sort_order) ==
    LET u1 == update_sort_order(img, card_id, SwapSentinel)
        u2 == update_sort_order(u1.image, target_id, from_sort_order)
        u3 == update_sort_order(u2.image, card_id, to_sort_order)
    IN  IF u1.ok /\ u2.ok /\ u3.ok
        THEN [ok |-> TRUE, image |-> u3.image]
        ELSE [ok |-> FALSE, image |-> img]

\* a move without the check of the source cell: with no card there, the
\* card of the target cell is written to the source position instead
move_image_unchecked(img, cards, columns, from_row, from_col, to_row, to_col) ==
    LET from_sort_order == cell_to_position(from_row, from_col, columns)
        to_sort_order == cell_to_position(to_row, to_col, columns)
    IN  IF << from_row, from_col >> \notin DOMAIN cards
        THEN IF << to_row, to_col >> \in DOMAIN cards
             THEN LET r == update_sort_order(img, cards[<< to_row, to_col >>],
                                             from_sort_order)
                  IN  [kind |-> "none", ok |-> TRUE, image |-> r.image, id |-> 0,
                       from |-> 0, to |-> 0]
             ELSE [kind |-> "none", ok |-> TRUE, image |-> img, id |-> 0,
                   from |-> 0, to |-> 0]
        ELSE IF << to_row, to_col >> \in DOMAIN cards
        THEN LET r == swap_transaction(img, cards[<< from_row, from_col >>],
                                       cards[<< to_row, to_col >>],
                                       from_sort_order, to_sort_order)
             IN  [kind |-> "swap", ok |-> r.ok, image |-> r.image,
                  id |-> cards[<< from_row, from_col >>],
                  from |-> from_sort_order, to |-> to_sort_order]
        ELSE LET r == update_sort_order(img, cards[<< from_row, from_col >>],
                                        to_sort_order)
             IN  [kind |-> "simple", ok |-> r.ok, image |-> r.image,
                  id |-> cards[<< from_row, from_col >>],
                  from |-> from_sort_order, to |-> to_sort_order]

\* ImageIndexWidget.move_image: what it does to the store.
\* kind: "none" (no card at the source cell), "swap" or "simple"
move_image(img, cards, columns, from_row, from_col, to_row, to_col) ==
    IF << from_row, from_col >> \notin DOMAIN cards
    THEN [kind |-> "none", ok |-> TRUE, image |-> img, id |-> 0,
          from |-> 0, to |-> 0]
    ELSE LET card_id == cards[<< from_row, from_col >>]
             from_sort_order == cell_to_position(from_row, from_col, columns)
             to_sort_order == cell_to_position(to_row, to_col, columns)
         IN  IF << to_row, to_col >> \in DOMAIN cards
             THEN LET r == swap_transaction(img, card_id,
                                            cards[<< to_row, to_col >>],
                                            from_sort_order, to_sort_order)
                  IN  [kind |-> "swap", ok |-> r.ok, image |-> r.image,
                       id |-> card_id, from |-> from_sort_order,
                       to |-> to_sort_order]
             ELSE LET r == update_sort_order(img, card_id, to_sort_order)
                  IN  [kind |-> "simple", ok |-> r.ok, image |-> r.image,
                       id |-> card_id, from |-> from_sort_order,
                       to |-> to_sort_order]

(***************************************************************************)
(* Record Store: the video table of create_database (no CHECK, no UNIQUE). *)
(***************************************************************************)
VideoRows(vid) == {i \in DOMAIN vid : vid[i] # NoRow}

VideosOfCampus(vid, c) == {i \in VideoRows(vid) : vid[i].campus_id = c}

\* Video._get_next_sort_order: COALESCE(MAX(sort_order), 0) + 1
Video_get_next_sort_order(vid, c) ==
    LET used == {vid[i].sort_order : i \in VideosOfCampus(vid, c)}
    IN  IF used = {} THEN 1
        ELSE (CHOOSE m \in used : \A u \in used : u <= m) + 1

\* Video.save, new record whose sort_order is already resolved: the INSERT
Video_save_insert(vid, seq, c, sort_order) ==
    [video |-> [vid EXCEPT ![seq + 1] =
                   [campus_id |-> c, sort_order |-> sort_order]],
     seq |-> seq + 1]

\* Video.save, existing record: the UPDATE
Video_save_update(vid, id, sort_order) ==
    IF vid[id] = NoRow THEN vid
    ELSE [vid EXCEPT ![id].sort_order = sort_order]

\* Video.delete
Video_delete(vid, id) == [vid EXCEPT ![id] = NoRow]

\* Video.get_by_campus_id
Video_get_by_campus_id(vid, c) == OrderRows(vid, VideosOfCampus(vid, c))

(***************************************************************************)
(* video_utils: thumbnails.                                                *)
(***************************************************************************)
\* create_placeholder_thumbnail: the grey pixmap is drawn and saved
create_placeholder_thumbnail == TRUE

\* generate_thumbnail_with_qt: no captured frame gives the placeholder
generate_thumbnail_with_qt(decodes) ==
    IF decodes THEN TRUE ELSE create_placeholder_thumbnail

\* generate_thumbnail: with OpenCV a file that cannot be opened or read
\* gives False; without it the Qt path is taken
generate_thumbnail(cv2_available, decodes) ==
    IF ~cv2_available THEN generate_thumbnail_with_qt(decodes)
    ELSE decodes

(***************************************************************************)
(* The video grid (VideoIndexWidget).                                      *)
(***************************************************************************)
\* VideoIndexWidget.create_video_cards: the i-th video of the list goes to
\* cell (i // columns, i % columns)
create_video_cards(videos, w) ==
    LET columns == calculate_responsive_columns(w)
    IN  [video_cards |->
            [k \in 1..Len(videos) |->
                [id |-> videos[k].id, sort_order |-> videos[k].sort_order,
                 row |-> (k - 1) \div columns, col |-> (k - 1) % columns]],
         current_columns |-> columns]

\* VideoIndexWidget.load_videos
load_videos(vid, c, w, cur_columns) ==
    LET videos == Video_get_by_campus_id(vid, c)
    IN  IF videos = << >>
        THEN [video_cards |-> << >>, current_columns |-> cur_columns]
        ELSE create_video_cards(videos, w)

\* VideoIndexWidget.get_grid_position_from_point; <<-1, -1>> is "no cell"
video_get_grid_position_from_point(x, y, columns) ==
    LET adjusted_x == IF x - margin_x < 0 THEN 0 ELSE x - margin_x
        adjusted_y == IF y - margin_y < 0 THEN 0 ELSE y - margin_y
        col == adjusted_x \div (card_width + spacing)
        row == adjusted_y \div (card_height + spacing)
    IN  IF 0 <= row /\ row < video_max_rows /\ 0 <= col /\ col < columns
        THEN << row, col >>
        ELSE << -1, -1 >>

\* VideoIndexWidget.update_video_order: what it writes to the store
update_video_order(vid, id, new_row, new_col, columns) ==
    Video_save_update(vid, id, cell_to_position(new_row, new_col, columns))

(***************************************************************************)
(* Record Store: the campus table of create_database, and Campus.          *)
(***************************************************************************)
CampusIds == 1..MaxCampusId

\* names typed into the campus forms (the forms refuse an empty name)
CampusNames == {"a", "b"}

\* the data of the two items of type_combo
CampusTypes == {"image", "video"}

CampusRows(tbl) == {i \in DOMAIN tbl : tbl[i] # NoRow}

\* Campus.get_all
Campus_get_all(tbl) ==
    {[id |-> i, name |-> tbl[i].name, type |-> tbl[i].type] : i \in CampusRows(tbl)}

\* Campus.get_by_id
Campus_get_by_id(tbl, id) ==
    IF id \in CampusRows(tbl)
    THEN [id |-> id, name |-> tbl[id].name, type |-> tbl[id].type]
    ELSE NoRow

\* Campus.save, new record: INSERT INTO campus (name, type)
Campus_save_insert(tbl, seq, name, type) ==
    [campus |-> [tbl EXCEPT ![seq + 1] = [name |-> name, type |-> type]],
     seq |-> seq + 1]

\* Campus.save, existing record: UPDATE campus SET name = ?, type = ?
Campus_save_update(tbl, id, name, type) ==
    IF id \in CampusRows(tbl)
    THEN [tbl EXCEPT ![id] = [name |-> name, type |-> type]]
    ELSE tbl

\* Campus.delete
Campus_delete(tbl, id) == [tbl EXCEPT ![id] = NoRow]

\* the campuses the user created before the session: the image containers
\* and the video container
CreatedCampuses ==
    [i \in CampusIds |->
        IF i \in ImageCampuses \cup StoreCampuses
        THEN [name |-> "a", type |-> "image"]
        ELSE IF i \in VideoCampuses
        THEN [name |-> "a", type |-> "video"]
        ELSE NoRow]

(***************************************************************************)
(* Inputs.                                                                 *)
(***************************************************************************)
\* drop points, relative to the grid container: one inside every column up
\* to one past the fifth, one inside every row up to one past the eighth
DropXs == {margin_x + c * (card_width + spacing) + 5 : c \in 0..max_columns}
DropYs == {margin_y + r * (card_height + spacing) + 5 :
              r \in 0..get_max_rows(min_columns)}

\* values of the edit form's spin box (its range is 0..9999)
SortInputs == 0..(max_cells + 1)

IdleUpload == [pc |-> "idle", campus_id |-> 0, sort_order |-> 0, ok |-> FALSE]

\* what the last step did: the handler, the branch it took or the exception
\* it raised, whether its write committed, and the record and position written
Op(op) == [op |-> op, kind |-> "", ok |-> TRUE, id |-> 0, to |-> 0,
           campus_id |-> 0]

EmptyImageTable == [i \in ImageIds |-> NoRow]

\* drop points of the video grid: rows 0..2 and the first row out of range
VideoDropYs == {margin_y + r * (card_height + spacing) + 5 :
                   r \in {0, 1, 2, video_max_rows}}

\* values of the video edit form's spin box (its range is 0..999)
VideoSortInputs == {0, 1, 2, 999}

IdleVideoUpload == [pc |-> "idle", campus_id |-> 0, sort_order |-> 0, ok |-> FALSE]

EmptyVideoTable == [i \in VideoIds |-> NoRow]

NoVideoGrid == [campus_id |-> 0, video_cards |-> << >>,
                current_columns |-> video_default_columns, manage_mode |-> FALSE]

NoGrid == [image_cards |-> NoCells, empty_cells |-> NoCells,
           current_columns |-> default_columns]

\* the application after MainWindow.__init__, on a store holding img and vid
InitOn(img, seq, vid, vseq) ==
    /\ image = img
    /\ image_seq = seq
    /\ page = "campus_index"
    /\ campus_id = 0
    /\ images = << >>
    /\ grid = NoGrid
    /\ position_edit_mode = FALSE
    /\ drag = NoDrag
    /\ image_id = 0
    /\ upload = IdleUpload
    /\ upload2 = IdleUpload
    /\ video = vid
    /\ video_seq = vseq
    /\ vgrid = NoVideoGrid
    /\ vdrag = NoDrag
    /\ video_id = 0
    /\ vupload = IdleVideoUpload
    /\ campus = CreatedCampuses
    /\ campus_seq = Cardinality(CampusRows(CreatedCampuses))
    /\ campuses = Campus_get_all(CreatedCampuses)
    /\ campus_edit = NoRow

\* the application started on a store whose campuses exist and whose media
\* tables are still empty
Init ==
    /\ InitOn(EmptyImageTable, 0, EmptyVideoTable, 0)
    /\ width \in Widths
    /\ last = Op("")

\* ImageIndexWidget.load_images (refresh): reload the snapshot, redisplay
load_images(img, c, w, cur_columns) ==
    /\ images' = Image_get_by_campus_id(img, c)
    /\ grid' = display_images(Image_get_by_campus_id(img, c), w, cur_columns)

\* a handler that writes nothing to the store
Unwritten ==
    /\ last' = Op("")
    /\ UNCHANGED << image, image_seq >>

(***************************************************************************)
(* Navigation (MainWindow).                                                *)
(***************************************************************************)
\* MainWindow.show_image_index: a new ImageIndexWidget for the campus
show_image_index(c, w) ==
    /\ UNCHANGED << video_vars, campus_vars, upload2 >>
    /\ page = "campus_index"
    /\ page' = "image_index"
    /\ campus_id' = c
    /\ width' = w
    /\ position_edit_mode' = FALSE
    /\ drag' = NoDrag
    /\ load_images(image, c, w, default_columns)
    /\ Unwritten
    /\ UNCHANGED << image_id, upload >>

\* MainWindow.show_campus_index
show_campus_index ==
    /\ UNCHANGED << video_vars, campus, campus_seq, campus_edit, upload2 >>
    /\ campuses' = Campus_get_all(campus)
    /\ page = "image_index"
    /\ drag = NoDrag
    /\ page' = "campus_index"
    /\ Unwritten
    /\ UNCHANGED << campus_id, images, grid, width, position_edit_mode, drag,
                    image_id, upload >>

\* MainWindow.show_image_index_from_create / _from_edit / _from_detail
show_image_index_from(from_page) ==
    /\ UNCHANGED << video_vars, campus_vars, upload2 >>
    /\ page = from_page
    /\ page' = "image_index"
    /\ load_images(image, campus_id, width, current_columns)
    /\ image_id' = 0
    /\ Unwritten
    /\ UNCHANGED << campus_id, width, position_edit_mode, drag, upload >>

\* MainWindow.show_image_create
show_image_create ==
    /\ UNCHANGED << video_vars, campus_vars, upload2 >>
    /\ page = "image_index"
    /\ drag = NoDrag
    /\ upload.pc = "idle"
    /\ page' = "image_create"
    /\ Unwritten
    /\ UNCHANGED << campus_id, images, grid, width, position_edit_mode, drag,
                    image_id, upload >>

\* ImageCard.mousePressEvent -> MainWindow.show_image_detail
show_image_detail(cell) ==
    /\ UNCHANGED << video_vars, campus_vars, upload2 >>
    /\ page = "image_index"
    /\ drag = NoDrag
    /\ ~position_edit_mode
    /\ cell \in DOMAIN image_cards
    /\ image_id' = image_cards[cell]
    /\ page' = "image_detail"
    /\ Unwritten
    /\ UNCHANGED << campus_id, images, grid, width, position_edit_mode, drag,
                    upload >>

\* ImageEditWidget.__init__ -> load_image_info: whether the record was found;
\* when it is not, back_to_index_requested is emitted from the constructor
ImageEditWidget_load_image_info(img, id) == img[id] # NoRow

\* the slots connected to back_to_index_requested while the constructor of
\* ImageEditWidget runs: show_image_edit connects them after it returns
SlotsDuringInit == {}

\* MainWindow.show_image_edit, requested by the detail view: the widget is
\* constructed, the signals are connected, the edit page is shown
show_image_edit ==
    /\ UNCHANGED << video_vars, campus_vars, upload2 >>
    /\ page = "image_detail"
    /\ LET found == ImageEditWidget_load_image_info(image, image_id)
           \* slots run by the emit of the constructor; each of them would
           \* show the index before set_current_page shows the edit page
           ran == IF found THEN {} ELSE SlotsDuringInit
       IN  /\ page' = "image_edit"
           /\ last' = [Op("show_image_edit") EXCEPT
                          !.ok = found, !.id = image_id,
                          !.kind = IF found THEN ""
                                   ELSE IF ran = {} THEN "emit_unconnected"
                                   ELSE "emit_received"]
    /\ UNCHANGED << image, image_seq >>
    /\ UNCHANGED << campus_id, images, grid, width, position_edit_mode, drag,
                    image_id, upload >>

(***************************************************************************)
(* Edit view (ImageEditWidget).                                            *)
(***************************************************************************)
\* ImageEditWidget.save_changes; on success image_updated brings the index
\* back and refreshes it, on an exception the edit view stays
save_changes(new_sort_order) ==
    /\ UNCHANGED << video_vars, campus_vars, upload2 >>
    /\ page = "image_edit"
    /\ image[image_id] # NoRow
    /\ LET r == Image_save_update(image, image_id, new_sort_order)
       IN  /\ image' = r.image
           /\ last' = [Op("save_changes") EXCEPT
                          !.kind = r.raised, !.ok = r.ok, !.id = image_id,
                          !.to = new_sort_order]
           /\ IF r.ok
              THEN /\ page' = "image_index"
                   /\ image_id' = 0
                   /\ load_images(r.image, campus_id, width, current_columns)
              ELSE UNCHANGED << page, image_id, images, grid >>
    /\ UNCHANGED << image_seq, campus_id, width, position_edit_mode, drag, upload >>

\* ImageEditWidget.delete_image, confirmed
delete_image ==
    /\ UNCHANGED << video_vars, campus_vars, upload2 >>
    /\ page = "image_edit"
    /\ image[image_id] # NoRow
    /\ image' = Image_delete(image, image_id)
    /\ last' = [Op("delete_image") EXCEPT !.id = image_id]
    /\ page' = "image_index"
    /\ load_images(Image_delete(image, image_id), campus_id, width, current_columns)
    /\ image_id' = 0
    /\ UNCHANGED << image_seq, campus_id, width, position_edit_mode, drag, upload >>

(***************************************************************************)
(* Upload (ImageCreateWidget and its ImageUploadThread).                   *)
(***************************************************************************)
\* 1 while the thread may still insert a record
InFlight(u) == IF u.pc \in {"running", "allocated"} THEN 1 ELSE 0

\* ImageCreateWidget.start_upload
start_upload ==
    /\ UNCHANGED << video_vars, campus_vars, upload2 >>
    /\ page = "image_create"
    /\ upload.pc = "idle"
    /\ image_seq + InFlight(upload2) < MaxImageId
    /\ upload' = [pc |-> "running", campus_id |-> campus_id, sort_order |-> 0,
                  ok |-> FALSE]
    /\ Unwritten
    /\ UNCHANGED << page, campus_id, images, grid, width, position_edit_mode, drag,
                    image_id >>

\* ImageUploadThread.run: reading the source file raises; the except branch
\* emits upload_completed(False, ...)
upload_fail ==
    /\ UNCHANGED << video_vars, campus_vars, upload2 >>
    /\ upload.pc = "running"
    /\ upload' = [upload EXCEPT !.pc = "completed", !.ok = FALSE]
    /\ last' = [Op("upload_fail") EXCEPT !.ok = FALSE]
    /\ UNCHANGED << image, image_seq, page, campus_id, images, grid, width,
                    position_edit_mode, drag, image_id >>

\* ImageUploadThread.run -> Image.save: sort_order 0 is resolved first
upload_allocate ==
    /\ UNCHANGED << video_vars, campus_vars, upload2 >>
    /\ upload.pc = "running"
    /\ upload' = [upload EXCEPT
                     !.pc = "allocated",
                     !.sort_order = Image_get_next_sort_order(image, upload.campus_id)]
    /\ Unwritten
    /\ UNCHANGED << page, campus_id, images, grid, width, position_edit_mode, drag,
                    image_id >>

\* a run that inserts its record and then signals a failure
upload_insert_then_fail ==
    /\ UNCHANGED << video_vars, campus_vars, upload2 >>
    /\ upload.pc = "allocated"
    /\ LET r == Image_save_insert(image, image_seq, upload.campus_id,
                                  upload.sort_order)
       IN  /\ image' = r.image
           /\ image_seq' = r.seq
           /\ upload' = [upload EXCEPT !.pc = "completed", !.ok = FALSE,
                                       !.sort_order = 0]
           /\ last' = [Op("upload_insert") EXCEPT
                          !.kind = r.raised, !.ok = FALSE,
                          !.id = 0, !.to = upload.sort_order]
    /\ UNCHANGED << page, campus_id, images, grid, width, position_edit_mode, drag,
                    image_id >>

\* ImageUploadThread.run -> Image.save: the range check and the INSERT, then
\* upload_completed is emitted with the outcome
upload_insert ==
    /\ UNCHANGED << video_vars, campus_vars, upload2 >>
    /\ upload.pc = "allocated"
    /\ LET r == Image_save_insert(image, image_seq, upload.campus_id,
                                  upload.sort_order)
       IN  /\ image' = r.image
           /\ image_seq' = r.seq
           /\ upload' = [upload EXCEPT !.pc = "completed", !.ok = r.ok,
                                       !.sort_order = 0]
           /\ last' = [Op("upload_insert") EXCEPT
                          !.kind = r.raised, !.ok = r.ok,
                          !.id = IF r.ok THEN r.seq ELSE 0,
                          !.to = upload.sort_order]
    /\ UNCHANGED << page, campus_id, images, grid, width, position_edit_mode, drag,
                    image_id >>

\* ImageCreateWidget.on_upload_completed, run by the main thread
on_upload_completed ==
    /\ UNCHANGED << video_vars, campus_vars, upload2 >>
    /\ upload.pc = "completed"
    /\ upload' = IdleUpload
    /\ IF upload.ok
       THEN /\ page' = "image_index"
            /\ image_id' = 0
            /\ load_images(image, campus_id, width, current_columns)
       ELSE UNCHANGED << page, image_id, images, grid >>
    /\ Unwritten
    /\ UNCHANGED << campus_id, width, position_edit_mode, drag >>

(***************************************************************************)
(* Responsive re-layout and reordering (ImageIndexWidget).                 *)
(***************************************************************************)
\* a re-layout that first runs update_sort_orders: every card's record is
\* rewritten with the position its old cell has under the new column count
refresh_layout_only_updating(w) ==
    LET new_columns == calculate_responsive_columns(w)
        cell_of(i) == CHOOSE cell \in DOMAIN image_cards : image_cards[cell] = i
        shown == {image_cards[cell] : cell \in DOMAIN image_cards}
        updated == [i \in DOMAIN image |->
                       IF i \in shown /\ image[i] # NoRow
                       THEN [image[i] EXCEPT !.sort_order =
                                cell_to_position(cell_of(i)[1], cell_of(i)[2],
                                                 new_columns)]
                       ELSE image[i]]
    IN  IF current_columns = new_columns
        THEN UNCHANGED << image, image_seq, images, grid >>
        ELSE /\ image' = updated
             /\ grid' = display_images(images, w, new_columns)
             /\ UNCHANGED << image_seq, images >>

\* a refresh_layout_only without the early return: it reloads the records and
\* rebuilds the grid on every resize
refresh_layout_only_reloading(w) ==
    /\ load_images(image, campus_id, w, current_columns)
    /\ UNCHANGED << image, image_seq >>

\* ImageIndexWidget.refresh_layout_only, for the new width w
refresh_layout_only(w) ==
    LET old_columns == current_columns
        new_columns == calculate_responsive_columns(w)
    IN  IF old_columns = new_columns
        THEN UNCHANGED << image, image_seq, images, grid >>
        ELSE /\ grid' = display_images(images, w, new_columns)
             /\ UNCHANGED << image, image_seq, images >>

\* ImageIndexWidget.resizeEvent
resizeEvent(w) ==
    /\ UNCHANGED << video_vars, campus_vars, upload2 >>
    /\ page = "image_index"
    /\ w # width
    /\ width' = w
    /\ IF images # << >>
       THEN refresh_layout_only(w)
       ELSE UNCHANGED << image, image_seq, images, grid >>
    /\ last' = [Op("resizeEvent") EXCEPT
                   !.kind = IF images # << >> /\ current_columns #
                                    calculate_responsive_columns(w)
                            THEN "relayout" ELSE ""]
    /\ UNCHANGED << page, campus_id, position_edit_mode, drag, image_id, upload >>

\* ImageIndexWidget.toggle_position_edit_mode
toggle_position_edit_mode ==
    /\ UNCHANGED << video_vars, campus_vars, upload2 >>
    /\ page = "image_index"
    /\ drag = NoDrag
    /\ position_edit_mode' = ~position_edit_mode
    /\ Unwritten
    /\ UNCHANGED << page, campus_id, images, grid, width, drag, image_id, upload >>

\* ImageCard.mouseMoveEvent -> start_drag: the payload image_<id>_<row>_<col>
start_drag(cell) ==
    /\ UNCHANGED << video_vars, campus_vars, upload2 >>
    /\ page = "image_index"
    /\ position_edit_mode
    /\ drag = NoDrag
    /\ cell \in DOMAIN image_cards
    /\ drag' = [image_id |-> image_cards[cell], row |-> cell[1], col |-> cell[2]]
    /\ Unwritten
    /\ UNCHANGED << page, campus_id, images, grid, width, position_edit_mode,
                    image_id, upload >>

\* the drag ends outside the grid container: no dropEvent
drag_cancel ==
    /\ UNCHANGED << video_vars, campus_vars, upload2 >>
    /\ drag # NoDrag
    /\ drag' = NoDrag
    /\ Unwritten
    /\ UNCHANGED << page, campus_id, images, grid, width, position_edit_mode,
                    image_id, upload >>

\* a drop that after a committed move redraws the list already in memory
\* in place of reloading it from the store
dropEvent_without_reload(x, y) ==
    /\ UNCHANGED << video_vars, campus_vars, upload2 >>
    /\ drag # NoDrag
    /\ page = "image_index"
    /\ drag' = NoDrag
    /\ LET target == get_grid_position_from_point(x, y, current_columns)
       IN  IF ~position_edit_mode \/ target[1] = -1 \/ target[2] = -1
           THEN /\ last' = Op("drop_ignored")
                /\ UNCHANGED << image, images, grid >>
           ELSE LET m == move_image(image, image_cards, current_columns,
                                    drag.row, drag.col, target[1], target[2])
                IN  /\ image' = m.image
                    /\ last' = [Op("move_image") EXCEPT
                                   !.kind = m.kind, !.ok = m.ok, !.id = m.id,
                                   !.to = m.to]
                    /\ IF m.kind = "none"
                       THEN UNCHANGED << images, grid >>
                       ELSE IF m.ok
                       THEN /\ grid' = display_images(images, width, current_columns)
                            /\ UNCHANGED images
                       ELSE /\ grid' = display_images(images, width, current_columns)
                            /\ UNCHANGED images
    /\ UNCHANGED << image_seq, page, campus_id, width, position_edit_mode, image_id,
                    upload >>

\* ImageIndexWidget.dropEvent at point (x, y), with move_image and the
\* reload (load_images) or redisplay (display_images) that ends it
dropEvent(x, y) ==
    /\ UNCHANGED << video_vars, campus_vars, upload2 >>
    /\ drag # NoDrag
    /\ page = "image_index"
    /\ drag' = NoDrag
    /\ LET target == get_grid_position_from_point(x, y, current_columns)
       IN  IF ~position_edit_mode \/ target[1] = -1 \/ target[2] = -1
           THEN /\ last' = Op("drop_ignored")
                /\ UNCHANGED << image, images, grid >>
           ELSE LET m == move_image(image, image_cards, current_columns,
                                    drag.row, drag.col, target[1], target[2])
                IN  /\ image' = m.image
                    /\ last' = [Op("move_image") EXCEPT
                                   !.kind = m.kind, !.ok = m.ok, !.id = m.id,
                                   !.to = m.to]
                    /\ IF m.kind = "none"
                       THEN UNCHANGED << images, grid >>
                       ELSE IF m.ok
                       THEN load_images(m.image, campus_id, width, current_columns)
                       ELSE /\ grid' = display_images(images, width, current_columns)
                            /\ UNCHANGED images
    /\ UNCHANGED << image_seq, page, campus_id, width, position_edit_mode, image_id,
                    upload >>

\* texts dropped on the grid by a drag that began outside the image cards:
\* whether the mime data has text, whether it starts with "image_", the
\* number of fields between "_", whether fields 2..4 are integers, and the
\* integers themselves
ForeignPayloads ==
    {[hasText |-> FALSE, image_prefix |-> FALSE, parts |-> 0, numeric |-> FALSE,
      image_id |-> 0, row |-> 0, col |-> 0],
     [hasText |-> TRUE, image_prefix |-> FALSE, parts |-> 4, numeric |-> TRUE,
      image_id |-> 1, row |-> 0, col |-> 0],
     [hasText |-> TRUE, image_prefix |-> TRUE, parts |-> 3, numeric |-> TRUE,
      image_id |-> 1, row |-> 0, col |-> 0],
     [hasText |-> TRUE, image_prefix |-> TRUE, parts |-> 5, numeric |-> TRUE,
      image_id |-> 1, row |-> 0, col |-> 0],
     [hasText |-> TRUE, image_prefix |-> TRUE, parts |-> 4, numeric |-> FALSE,
      image_id |-> 0, row |-> 0, col |-> 0],
     [hasText |-> TRUE, image_prefix |-> TRUE, parts |-> 4, numeric |-> TRUE,
      image_id |-> 1, row |-> 0, col |-> 0]}

\* a dropEvent that does not test position_edit_mode
dropEvent_validates_any_mode(mode, payload, target) ==
    /\ payload.hasText
    /\ payload.image_prefix
    /\ target[1] # -1 /\ target[2] # -1
    /\ payload.parts = 4

\* ImageIndexWidget.dropEvent: the checks that come before move_image
dropEvent_validates(mode, payload, target) ==
    /\ mode /\ payload.hasText
    /\ payload.image_prefix
    /\ target[1] # -1 /\ target[2] # -1
    /\ payload.parts = 4

\* ImageIndexWidget.dropEvent at point (x, y) for a text dropped from outside
\* the image cards; int() raises on a field that is not an integer
foreign_dropEvent(payload, x, y) ==
    /\ UNCHANGED << video_vars, campus_vars, upload2 >>
    /\ drag = NoDrag
    /\ page = "image_index"
    /\ LET target == get_grid_position_from_point(x, y, current_columns)
           dropped == [Op("foreign_drop") EXCEPT !.kind = "ignored"]
                         @@ [payload |-> payload, x |-> x, y |-> y]
       IN  IF ~dropEvent_validates(position_edit_mode, payload, target)
           THEN /\ last' = dropped
                /\ UNCHANGED << image, images, grid >>
           ELSE IF ~payload.numeric
           THEN /\ last' = [dropped EXCEPT !.kind = "ValueError", !.ok = FALSE]
                /\ UNCHANGED << image, images, grid >>
           ELSE LET m == move_image(image, image_cards, current_columns,
                                    payload.row, payload.col, target[1], target[2])
                IN  /\ image' = m.image
                    /\ last' = [dropped EXCEPT
                                   !.kind = m.kind, !.ok = m.ok, !.id = m.id,
                                   !.to = m.to]
                    /\ IF m.kind = "none"
                       THEN UNCHANGED << images, grid >>
                       ELSE IF m.ok
                       THEN load_images(m.image, campus_id, width, current_columns)
                       ELSE /\ grid' = display_images(images, width, current_columns)
                            /\ UNCHANGED images
    /\ UNCHANGED << image_seq, page, campus_id, width, position_edit_mode, drag,
                    image_id, upload >>

(***************************************************************************)
(* Video pages (MainWindow, VideoIndexWidget, VideoCreateWidget and its    *)
(* VideoUploadThread, VideoEditWidget).                                    *)
(***************************************************************************)
\* VideoIndexWidget.load_videos / refresh, keeping campus and manage mode
SetVideoGrid(vid, w) ==
    LET g == load_videos(vid, vgrid.campus_id, w, vgrid.current_columns)
    IN  vgrid' = [vgrid EXCEPT !.video_cards = g.video_cards,
                               !.current_columns = g.current_columns]

\* MainWindow.show_video_index: a new VideoIndexWidget for the campus
show_video_index(c, w) ==
    /\ UNCHANGED << image_vars, campus_vars >>
    /\ page = "campus_index"
    /\ page' = "video_index"
    /\ width' = w
    /\ LET g == load_videos(video, c, w, video_default_columns)
       IN  vgrid' = [campus_id |-> c, video_cards |-> g.video_cards,
                     current_columns |-> g.current_columns, manage_mode |-> FALSE]
    /\ vdrag' = NoDrag
    /\ last' = Op("")
    /\ UNCHANGED << video, video_seq, video_id, vupload >>

\* back_to_campus_requested -> MainWindow.show_campus_index
video_show_campus_index ==
    /\ UNCHANGED << image_vars, campus, campus_seq, campus_edit >>
    /\ campuses' = Campus_get_all(campus)
    /\ page = "video_index"
    /\ vdrag = NoDrag
    /\ page' = "campus_index"
    /\ last' = Op("")
    /\ UNCHANGED << video_vars, width >>

\* MainWindow.show_video_index_from_create / _from_edit
show_video_index_from(from_page) ==
    /\ UNCHANGED << image_vars, campus_vars >>
    /\ page = from_page
    /\ page' = "video_index"
    /\ SetVideoGrid(video, width)
    /\ video_id' = 0
    /\ last' = Op("")
    /\ UNCHANGED << video, video_seq, vdrag, vupload, width >>

\* MainWindow.show_video_create
show_video_create ==
    /\ UNCHANGED << image_vars, campus_vars >>
    /\ page = "video_index"
    /\ vdrag = NoDrag
    /\ vupload.pc = "idle"
    /\ page' = "video_create"
    /\ last' = Op("")
    /\ UNCHANGED << video_vars, width >>

\* VideoCreateWidget.start_upload
video_start_upload ==
    /\ UNCHANGED << image_vars, campus_vars >>
    /\ page = "video_create"
    /\ vupload.pc = "idle"
    /\ video_seq < MaxVideoId
    /\ vupload' = [pc |-> "running", campus_id |-> vgrid.campus_id,
                   sort_order |-> 0, ok |-> FALSE]
    /\ last' = Op("")
    /\ UNCHANGED << video, video_seq, vgrid, vdrag, video_id, page, width >>

\* VideoUploadThread.run: copy_video_file returns no path
video_upload_fail ==
    /\ UNCHANGED << image_vars, campus_vars >>
    /\ vupload.pc = "running"
    /\ vupload' = [vupload EXCEPT !.pc = "completed", !.ok = FALSE]
    /\ last' = [Op("video_upload_fail") EXCEPT !.ok = FALSE]
    /\ UNCHANGED << video, video_seq, vgrid, vdrag, video_id, page, width >>

\* VideoUploadThread.run after the copy: generate_thumbnail on a build with or
\* without OpenCV, for a file whose frame decodes or not; False ends the run
\* with upload_completed(False, ...)
video_generate_thumbnail(cv2_available, decodes) ==
    /\ UNCHANGED << image_vars, campus_vars >>
    /\ vupload.pc = "running"
    /\ vupload' = IF generate_thumbnail(cv2_available, decodes)
                  THEN [vupload EXCEPT !.pc = "thumbnailed"]
                  ELSE [vupload EXCEPT !.pc = "completed", !.ok = FALSE]
    /\ last' = [Op("generate_thumbnail") EXCEPT
                   !.kind = IF decodes THEN "frame" ELSE "decode_error",
                   !.ok = generate_thumbnail(cv2_available, decodes)]
    /\ UNCHANGED << video, video_seq, vgrid, vdrag, video_id, page, width >>

\* VideoUploadThread.run -> Video.save: sort_order 0 is resolved first
video_upload_allocate ==
    /\ UNCHANGED << image_vars, campus_vars >>
    /\ vupload.pc = "thumbnailed"
    /\ vupload' = [vupload EXCEPT
                      !.pc = "allocated",
                      !.sort_order = Video_get_next_sort_order(video,
                                                               vupload.campus_id)]
    /\ last' = Op("")
    /\ UNCHANGED << video, video_seq, vgrid, vdrag, video_id, page, width >>

\* VideoUploadThread.run -> Video.save: the INSERT, then upload_completed
video_upload_insert ==
    /\ UNCHANGED << image_vars, campus_vars >>
    /\ vupload.pc = "allocated"
    /\ LET r == Video_save_insert(video, video_seq, vupload.campus_id,
                                  vupload.sort_order)
       IN  /\ video' = r.video
           /\ video_seq' = r.seq
           /\ last' = [Op("video_upload_insert") EXCEPT
                          !.id = r.seq, !.to = vupload.sort_order]
    /\ vupload' = [vupload EXCEPT !.pc = "completed", !.ok = TRUE,
                                  !.sort_order = 0]
    /\ UNCHANGED << vgrid, vdrag, video_id, page, width >>

\* VideoCreateWidget.on_upload_completed, run by the main thread
video_on_upload_completed ==
    /\ UNCHANGED << image_vars, campus_vars >>
    /\ vupload.pc = "completed"
    /\ vupload' = IdleVideoUpload
    /\ IF vupload.ok
       THEN /\ page' = "video_index"
            /\ video_id' = 0
            /\ SetVideoGrid(video, width)
       ELSE UNCHANGED << page, video_id, vgrid >>
    /\ last' = Op("")
    /\ UNCHANGED << video, video_seq, vdrag, width >>

\* VideoIndexWidget.toggle_manage_mode
toggle_manage_mode ==
    /\ UNCHANGED << image_vars, campus_vars >>
    /\ page = "video_index"
    /\ vdrag = NoDrag
    /\ vgrid' = [vgrid EXCEPT !.manage_mode = ~vgrid.manage_mode]
    /\ last' = Op("")
    /\ UNCHANGED << video, video_seq, vdrag, video_id, vupload, page, width >>

\* VideoIndexWidget.confirm_and_delete_video, answered Yes
confirm_and_delete_video(k) ==
    /\ UNCHANGED << image_vars, campus_vars >>
    /\ page = "video_index"
    /\ vdrag = NoDrag
    /\ vgrid.manage_mode
    /\ k \in DOMAIN vgrid.video_cards
    /\ LET id == vgrid.video_cards[k].id
       IN  /\ video' = Video_delete(video, id)
           /\ SetVideoGrid(Video_delete(video, id), width)
           /\ last' = [Op("confirm_and_delete_video") EXCEPT !.id = id]
    /\ UNCHANGED << video_seq, vdrag, video_id, vupload, page, width >>

\* edit button of a card -> MainWindow.show_video_edit
show_video_edit(k) ==
    /\ UNCHANGED << image_vars, campus_vars >>
    /\ page = "video_index"
    /\ vdrag = NoDrag
    /\ vgrid.manage_mode
    /\ k \in DOMAIN vgrid.video_cards
    /\ video_id' = vgrid.video_cards[k].id
    /\ page' = "video_edit"
    /\ last' = Op("")
    /\ UNCHANGED << video, video_seq, vgrid, vdrag, vupload, width >>

\* VideoEditWidget.update_video; video_updated brings the index back
update_video(new_sort_order) ==
    /\ UNCHANGED << image_vars, campus_vars >>
    /\ page = "video_edit"
    /\ video[video_id] # NoRow
    /\ video' = Video_save_update(video, video_id, new_sort_order)
    /\ page' = "video_index"
    /\ SetVideoGrid(Video_save_update(video, video_id, new_sort_order), width)
    /\ video_id' = 0
    /\ last' = [Op("update_video") EXCEPT !.id = video_id, !.to = new_sort_order]
    /\ UNCHANGED << video_seq, vdrag, vupload, width >>

\* VideoEditWidget.delete_video, answered Yes
delete_video ==
    /\ UNCHANGED << image_vars, campus_vars >>
    /\ page = "video_edit"
    /\ video[video_id] # NoRow
    /\ video' = Video_delete(video, video_id)
    /\ page' = "video_index"
    /\ SetVideoGrid(Video_delete(video, video_id), width)
    /\ video_id' = 0
    /\ last' = [Op("delete_video") EXCEPT !.id = video_id]
    /\ UNCHANGED << video_seq, vdrag, vupload, width >>

\* VideoCard.mouseMoveEvent -> start_drag: the payload video:<id>:<row>:<col>
video_start_drag(k) ==
    /\ UNCHANGED << image_vars, campus_vars >>
    /\ page = "video_index"
    /\ vdrag = NoDrag
    /\ k \in DOMAIN vgrid.video_cards
    /\ vdrag' = [video_id |-> vgrid.video_cards[k].id,
                 row |-> vgrid.video_cards[k].row,
                 col |-> vgrid.video_cards[k].col]
    /\ last' = Op("")
    /\ UNCHANGED << video, video_seq, vgrid, video_id, vupload, page, width >>

\* the drag ends outside the grid container: no dropEvent
video_drag_cancel ==
    /\ UNCHANGED << image_vars, campus_vars >>
    /\ vdrag # NoDrag
    /\ vdrag' = NoDrag
    /\ last' = Op("")
    /\ UNCHANGED << video, video_seq, vgrid, video_id, vupload, page, width >>

\* VideoIndexWidget.dropEvent at point (x, y), with update_video_order and
\* the load_videos that ends it
video_dropEvent(x, y) ==
    /\ UNCHANGED << image_vars, campus_vars >>
    /\ vdrag # NoDrag
    /\ page = "video_index"
    /\ vdrag' = NoDrag
    /\ LET target == video_get_grid_position_from_point(x, y, vgrid.current_columns)
       IN  IF target[1] = -1 \/ target[2] = -1
           THEN /\ last' = Op("video_drop_ignored")
                /\ UNCHANGED << video, vgrid >>
           ELSE IF video[vdrag.video_id] = NoRow
           THEN /\ last' = Op("video_drop_ignored")
                /\ UNCHANGED << video, vgrid >>
           ELSE LET v == update_video_order(video, vdrag.video_id, target[1],
                                            target[2], vgrid.current_columns)
                IN  /\ video' = v
                    /\ SetVideoGrid(v, width)
                    /\ last' = [Op("update_video_order") EXCEPT
                                   !.id = vdrag.video_id,
                                   !.to = cell_to_position(target[1], target[2],
                                                           vgrid.current_columns)]
    /\ UNCHANGED << video_seq, video_id, vupload, page, width >>

\* VideoCard.dropEvent of a card the payload is dropped on -> video_dropped ->
\* on_video_dropped -> update_video_order with the row and column of the
\* payload, the cell of the dragged card when the drag began
video_card_dropEvent ==
    /\ UNCHANGED << image_vars, campus_vars >>
    /\ vdrag # NoDrag
    /\ page = "video_index"
    /\ vgrid.video_cards # << >>
    /\ vdrag' = NoDrag
    /\ IF video[vdrag.video_id] = NoRow
       THEN /\ last' = Op("video_drop_ignored")
            /\ UNCHANGED << video, vgrid >>
       ELSE LET v == update_video_order(video, vdrag.video_id, vdrag.row,
                                        vdrag.col, vgrid.current_columns)
            IN  /\ video' = v
                /\ SetVideoGrid(v, width)
                /\ last' = [Op("update_video_order") EXCEPT
                               !.kind = "card",
                               !.id = vdrag.video_id,
                               !.to = cell_to_position(vdrag.row, vdrag.col,
                                                       vgrid.current_columns)]
    /\ UNCHANGED << video_seq, video_id, vupload, page, width >>

\* VideoIndexWidget.refresh_layout_only, for the new width w
video_refresh_layout_only(w) ==
    IF vgrid.current_columns = calculate_responsive_columns(w)
    THEN UNCHANGED vgrid
    ELSE LET g == load_videos(video, vgrid.campus_id, w,
                              calculate_responsive_columns(w))
         IN  vgrid' = [vgrid EXCEPT !.video_cards = g.video_cards,
                                    !.current_columns = g.current_columns]

\* VideoIndexWidget.resizeEvent
video_resizeEvent(w) ==
    /\ UNCHANGED << image_vars, campus_vars >>
    /\ page = "video_index"
    /\ w # width
    /\ width' = w
    /\ IF vgrid.video_cards # << >>
       THEN video_refresh_layout_only(w)
       ELSE UNCHANGED vgrid
    /\ last' = [Op("video_resizeEvent") EXCEPT
                   !.kind = IF vgrid.video_cards # << >> /\ vgrid.current_columns #
                                    calculate_responsive_columns(w)
                            THEN "relayout" ELSE ""]
    /\ UNCHANGED << video, video_seq, vdrag, video_id, vupload, page >>

(***************************************************************************)
(* Campus pages (CampusIndexWidget, CampusCreateWidget, CampusEditWidget). *)
(***************************************************************************)
\* MainWindow.show_campus_index reached from a campus page: the list is
\* reloaded
campus_index_refresh(tbl) ==
    /\ page' = "campus_index"
    /\ campuses' = Campus_get_all(tbl)

\* MainWindow.show_campus_create
show_campus_create ==
    /\ page = "campus_index"
    /\ page' = "campus_create"
    /\ last' = Op("")
    /\ UNCHANGED << image_vars, video_vars, campus_vars, width >>

\* CampusCreateWidget.create_campus with a name and the chosen type
create_campus(name, campus_type) ==
    /\ page = "campus_create"
    /\ campus_seq < MaxCampusId
    /\ LET r == Campus_save_insert(campus, campus_seq, name, campus_type)
       IN  /\ campus' = r.campus
           /\ campus_seq' = r.seq
           /\ campus_index_refresh(r.campus)
           /\ last' = [Op("create_campus") EXCEPT !.id = r.seq]
    /\ UNCHANGED << image_vars, video_vars, campus_edit, width >>

\* back_to_index of the create or the edit view
campus_back_to_index ==
    /\ page \in {"campus_create", "campus_edit"}
    /\ campus_index_refresh(campus)
    /\ last' = Op("")
    /\ UNCHANGED << image_vars, video_vars, campus, campus_seq, campus_edit, width >>

\* CampusIndexWidget.on_item_double_clicked on a campus that is not of type
\* image -> MainWindow.show_campus_edit -> CampusEditWidget.load_campus
show_campus_edit(c) ==
    /\ page = "campus_index"
    /\ \E r \in campuses : r.id = c /\ r.type # "image"
    /\ Campus_get_by_id(campus, c) # NoRow
    /\ campus_edit' = Campus_get_by_id(campus, c)
    /\ page' = "campus_edit"
    /\ last' = Op("")
    /\ UNCHANGED << image_vars, video_vars, campus, campus_seq, campuses, width >>

\* CampusEditWidget.update_campus with the name and the type of the form
update_campus(name, campus_type) ==
    /\ page = "campus_edit"
    /\ campus_edit # NoRow
    /\ ~(name = campus_edit.name /\ campus_type = campus_edit.type)
    /\ LET tbl == Campus_save_update(campus, campus_edit.id, name, campus_type)
       IN  /\ campus' = tbl
           /\ campus_index_refresh(tbl)
    /\ campus_edit' = [campus_edit EXCEPT !.name = name, !.type = campus_type]
    /\ last' = [Op("update_campus") EXCEPT !.id = campus_edit.id]
    /\ UNCHANGED << image_vars, video_vars, campus_seq, width >>

\* CampusEditWidget.delete_campus, answered Yes
delete_campus ==
    /\ page = "campus_edit"
    /\ campus_edit # NoRow
    /\ campus' = Campus_delete(campus, campus_edit.id)
    /\ campus_index_refresh(Campus_delete(campus, campus_edit.id))
    /\ last' = [Op("delete_campus") EXCEPT !.id = campus_edit.id]
    /\ UNCHANGED << image_vars, video_vars, campus_seq, campus_edit, width >>

(***************************************************************************)
(* Specifications.                                                         *)
(***************************************************************************)
\* the image pages once an image index is open; the user stays on the
\* create view while an upload runs
ImagePages ==
    \/ show_campus_index
    \/ upload.pc = "idle" /\ show_image_index_from("image_create")
    \/ \E p \in {"image_edit", "image_detail"} : show_image_index_from(p)
    \/ show_image_create
    \/ \E cell \in DOMAIN image_cards : show_image_detail(cell)
    \/ show_image_edit
    \/ \E so \in SortInputs : save_changes(so)
    \/ delete_image
    \/ start_upload
    \/ upload_fail
    \/ upload_allocate
    \/ upload_insert
    \/ on_upload_completed
    \/ \E w \in Widths : resizeEvent(w)
    \/ toggle_position_edit_mode
    \/ \E cell \in DOMAIN image_cards : start_drag(cell)
    \/ drag_cancel
    \/ \E x \in DropXs, y \in DropYs : dropEvent(x, y)

\* a session on the image containers
Next ==
    \/ \E c \in ImageCampuses, w \in Widths : show_image_index(c, w)
    \/ ImagePages

Spec == Init /\ [][Next]_vars

\* the video pages once the video index is open; the user stays on the
\* create view while an upload runs
VideoPages ==
    \/ video_show_campus_index
    \/ vupload.pc = "idle" /\ show_video_index_from("video_create")
    \/ show_video_index_from("video_edit")
    \/ show_video_create
    \/ video_start_upload
    \/ video_upload_fail
    \/ \E cv2 \in BOOLEAN, d \in BOOLEAN : video_generate_thumbnail(cv2, d)
    \/ video_upload_allocate
    \/ video_upload_insert
    \/ video_on_upload_completed
    \/ toggle_manage_mode
    \/ \E k \in DOMAIN vgrid.video_cards : confirm_and_delete_video(k)
    \/ \E k \in DOMAIN vgrid.video_cards : show_video_edit(k)
    \/ \E so \in VideoSortInputs : update_video(so)
    \/ delete_video
    \/ \E k \in DOMAIN vgrid.video_cards : video_start_drag(k)
    \/ video_drag_cancel
    \/ \E x \in DropXs, y \in VideoDropYs : video_dropEvent(x, y)
    \/ video_card_dropEvent
    \/ \E w \in Widths : video_resizeEvent(w)

\* a session on the video container
VideoNext ==
    \/ \E c \in VideoCampuses, w \in Widths : show_video_index(c, w)
    \/ VideoPages

VideoSpec == Init /\ [][VideoNext]_vars

\* a session on either kind of container: the two kinds share no state, and
\* a session stays with the kind of the first container it opens
GridNext ==
    \/ \E c \in ImageCampuses, w \in Widths :
           vgrid.campus_id = 0 /\ show_image_index(c, w)
    \/ ImagePages
    \/ \E c \in VideoCampuses, w \in Widths :
           campus_id = 0 /\ show_video_index(c, w)
    \/ VideoPages

GridSpec == Init /\ [][GridNext]_vars

(***************************************************************************)
(* The model classes called directly (Image of models.py), on stores a     *)
(* run of the application can leave behind.                                *)
(***************************************************************************)
StoreIds == 1..(max_cells + 2)

\* positions a caller may pass to Image(...).save()
ApiSortInputs == (-1)..(max_cells + 1)

\* the sets of positions the first container holds
Containers ==
    {S \in SUBSET (1..max_cells) :
        Cardinality(S) <= MaxFew \/ Cardinality(S) >= max_cells - MaxMissing}

\* the image table holding a record at each position of S in the first
\* container (ids in order of position) and, after them, a record at each
\* position of T in the second container
StoreOf(S, T) ==
    LET rank(U, p) == Cardinality({q \in U : q <= p})
        n == Cardinality(S)
    IN  [i \in StoreIds |->
            IF i <= n
            THEN [campus_id |-> CHOOSE c \in ImageCampuses : TRUE,
                  sort_order |-> CHOOSE p \in S : rank(S, p) = i]
            ELSE IF i <= n + Cardinality(T)
            THEN [campus_id |-> CHOOSE c \in StoreCampuses \ ImageCampuses : TRUE,
                  sort_order |-> CHOOSE p \in T : rank(T, p) = i - n]
            ELSE NoRow]

\* a window width of default_columns columns
StartWidth == CHOOSE w \in Widths : calculate_responsive_columns(w) = default_columns

StoreInit ==
    \E S \in Containers, T \in {{}, {max_cells}} :
        /\ InitOn(StoreOf(S, T), Cardinality(S) + Cardinality(T),
                  EmptyVideoTable, 0)
        /\ width = StartWidth
        /\ last = Op("")

\* Image._get_next_sort_order(db, c), called on its own
next_position(c) ==
    /\ last' = [Op("next_position") EXCEPT
                   !.to = Image_get_next_sort_order(image, c), !.campus_id = c]
    /\ UNCHANGED << image_vars, video_vars, campus_vars, page, width >>

\* Image(campus_id=c, sort_order=given).save() of a new record
Image_save_new(c, given) ==
    /\ LET sort_order == IF given = 0 THEN Image_get_next_sort_order(image, c)
                         ELSE given
           r == Image_save_insert(image, image_seq, c, sort_order)
       IN  /\ image' = r.image
           /\ image_seq' = r.seq
           /\ last' = [op |-> IF given = 0 THEN "create_auto" ELSE "create_explicit",
                       kind |-> r.raised, ok |-> r.ok,
                       id |-> IF r.ok THEN r.seq ELSE 0, to |-> sort_order,
                       campus_id |-> c]
    /\ UNCHANGED << campus_id, images, grid, position_edit_mode, drag, image_id,
                    upload, upload2, video_vars, campus_vars, page, width >>

\* Image.save() of the existing record id after setting its sort_order
Image_save_existing(id, sort_order) ==
    /\ image[id] # NoRow
    /\ LET r == Image_save_update(image, id, sort_order)
       IN  /\ image' = r.image
           /\ last' = [op |-> "update", kind |-> r.raised, ok |-> r.ok,
                       id |-> id, to |-> sort_order,
                       campus_id |-> image[id].campus_id]
    /\ UNCHANGED << image_seq, campus_id, images, grid, position_edit_mode, drag,
                    image_id, upload, upload2, video_vars, campus_vars, page, width >>

\* one call on each store
StoreNext ==
    \/ \E c \in StoreCampuses :
           last.op = "" /\ next_position(c)
    \/ \E c \in StoreCampuses, so \in ApiSortInputs :
           last.op = "" /\ Image_save_new(c, so)
    \/ \E id \in StoreIds, so \in ApiSortInputs :
           last.op = "" /\ Image_save_existing(id, so)

StoreSpec == StoreInit /\ [][StoreNext]_vars

(***************************************************************************)
(* The two layout mappings applied to drawn inputs.                        *)
(***************************************************************************)
LayoutInit ==
    /\ InitOn(EmptyImageTable, 0, EmptyVideoTable, 0)
    /\ width = StartWidth
    /\ \E columns \in min_columns..max_columns :
       \E sort_order \in 1..(columns * get_max_rows(columns)) :
       \E row \in 0..MaxLayoutRow, col \in 0..(columns - 1) :
           last = [op |-> "layout_input", columns |-> columns,
                   sort_order |-> sort_order, row |-> row, col |-> col]

\* display_images places sort_order; move_image reads the cell back
render_then_drop ==
    /\ last.op = "layout_input"
    /\ LET cell == position_to_cell(last.sort_order, last.columns)
       IN  last' = [op |-> "render_then_drop", columns |-> last.columns,
                    sort_order |-> last.sort_order, row |-> cell[1],
                    col |-> cell[2],
                    back |-> cell_to_position(cell[1], cell[2], last.columns)]
    /\ UNCHANGED << image_vars, video_vars, campus_vars, page, width >>

\* move_image computes the sort_order of a cell; display_images places it
drop_then_render ==
    /\ last.op = "layout_input"
    /\ LET sort_order == cell_to_position(last.row, last.col, last.columns)
       IN  last' = [op |-> "drop_then_render", columns |-> last.columns,
                    sort_order |-> sort_order, row |-> last.row,
                    col |-> last.col,
                    back |-> position_to_cell(sort_order, last.columns)]
    /\ UNCHANGED << image_vars, video_vars, campus_vars, page, width >>

LayoutNext ==
    \/ render_then_drop
    \/ drop_then_render

LayoutSpec == LayoutInit /\ [][LayoutNext]_vars

\* a session on the image containers in which records are also created with
\* an explicit position, by a direct Image(...).save(), while no image page
\* is shown
ApiNext ==
    \/ Next
    \/ \E c \in ImageCampuses, so \in ApiSortInputs \ {0} :
           /\ page = "campus_index"
           /\ image_seq < MaxImageId
           /\ Image_save_new(c, so)

ApiSpec == Init /\ [][ApiNext]_vars

\* the image index opened on a container of any size and resized
DisplayNext ==
    \/ \E c \in ImageCampuses, w \in Widths : show_image_index(c, w)
    \/ show_campus_index
    \/ \E w \in Widths : resizeEvent(w)

DisplaySpec == StoreInit /\ [][DisplayNext]_vars

\* a session on the image containers in which the user may also leave the
\* create view with the back button while the upload thread is running
BackgroundNext ==
    \/ \E c \in ImageCampuses, w \in Widths : show_image_index(c, w)
    \/ upload.pc # "idle" /\ show_image_index_from("image_create")
    \/ ImagePages

BackgroundSpec == Init /\ [][BackgroundNext]_vars

\* a session on either kind of container in which the user may also leave the
\* create view with the back button while the upload thread is running
BackgroundGridNext ==
    \/ \E c \in ImageCampuses, w \in Widths :
           vgrid.campus_id = 0 /\ show_image_index(c, w)
    \/ upload.pc # "idle" /\ show_image_index_from("image_create")
    \/ ImagePages
    \/ \E c \in VideoCampuses, w \in Widths :
           campus_id = 0 /\ show_video_index(c, w)
    \/ vupload.pc # "idle" /\ show_video_index_from("video_create")
    \/ VideoPages
    \/ \E w \in DragWidths : resizeEvent(w)
    \/ \E w \in DragWidths : video_resizeEvent(w)

BackgroundGridSpec == Init /\ [][BackgroundGridNext]_vars

\* a session on the video container made of uploads, whose positions are
\* allocated by Video.save, and of drags; no record is edited or deleted
VideoDragNext ==
    \/ \E c \in VideoCampuses, w \in Widths : show_video_index(c, w)
    \/ video_show_campus_index
    \/ vupload.pc = "idle" /\ show_video_index_from("video_create")
    \/ show_video_create
    \/ video_start_upload
    \/ video_upload_fail
    \/ \E cv2 \in BOOLEAN, d \in BOOLEAN : video_generate_thumbnail(cv2, d)
    \/ video_upload_allocate
    \/ video_upload_insert
    \/ video_on_upload_completed
    \/ \E k \in DOMAIN vgrid.video_cards : video_start_drag(k)
    \/ video_drag_cancel
    \/ \E x \in DropXs, y \in VideoDropYs : video_dropEvent(x, y)
    \/ video_card_dropEvent
    \/ \E w \in Widths : video_resizeEvent(w)

VideoDragSpec == Init /\ [][VideoDragNext]_vars

\* Image.delete run by another instance of the application on the same
\* database file (DatabaseManager.db_path is a file of the user's data
\* directory)
external_delete(id) ==
    /\ UNCHANGED << video_vars, campus_vars, upload2 >>
    /\ image[id] # NoRow
    /\ image' = Image_delete(image, id)
    /\ last' = [Op("external_delete") EXCEPT !.id = id]
    /\ UNCHANGED << image_seq, page, campus_id, images, grid, width,
                    position_edit_mode, drag, image_id, upload >>

\* a session on the image containers while another instance deletes records
SharedStoreNext ==
    \/ Next
    \/ \E id \in ImageIds : external_delete(id)

SharedStoreSpec == Init /\ [][SharedStoreNext]_vars

\* the steps of the two upload threads
ImageUploadThread_run ==
    \/ upload_fail
    \/ upload_allocate
    \/ upload_insert

VideoUploadThread_run ==
    \/ video_upload_fail
    \/ \E cv2 \in BOOLEAN, d \in BOOLEAN : video_generate_thumbnail(cv2, d)
    \/ video_upload_allocate
    \/ video_upload_insert

\* sessions of uploads only: the index and create views of both kinds, with
\* the back button of the create view also while a thread runs; the threads
\* are the only writers of the store
UploadNext ==
    \/ \E c \in ImageCampuses, w \in Widths :
           vgrid.campus_id = 0 /\ show_image_index(c, w)
    \/ show_image_index_from("image_create")
    \/ show_campus_index
    \/ show_image_create
    \/ start_upload
    \/ ImageUploadThread_run
    \/ on_upload_completed
    \/ \E c \in VideoCampuses, w \in Widths :
           campus_id = 0 /\ show_video_index(c, w)
    \/ show_video_index_from("video_create")
    \/ video_show_campus_index
    \/ show_video_create
    \/ video_start_upload
    \/ VideoUploadThread_run
    \/ video_on_upload_completed

\* a started QThread is scheduled until run returns
UploadSpec ==
    /\ Init
    /\ [][UploadNext]_vars
    /\ WF_vars(ImageUploadThread_run)
    /\ WF_vars(VideoUploadThread_run)

\* the second ImageCreateWidget, of another instance of the application on
\* the same database file: start_upload for the container c
second_start_upload(c) ==
    /\ UNCHANGED << video_vars, campus_vars >>
    /\ upload2.pc = "idle"
    /\ image_seq + InFlight(upload) < MaxImageId
    /\ upload2' = [pc |-> "running", campus_id |-> c, sort_order |-> 0,
                   ok |-> FALSE]
    /\ last' = Op("")
    /\ UNCHANGED << image, image_seq, page, campus_id, images, grid, width,
                    position_edit_mode, drag, image_id, upload >>

\* its ImageUploadThread.run -> Image.save: sort_order 0 is resolved first
second_upload_allocate ==
    /\ UNCHANGED << video_vars, campus_vars >>
    /\ upload2.pc = "running"
    /\ upload2' = [upload2 EXCEPT
                      !.pc = "allocated",
                      !.sort_order = Image_get_next_sort_order(image,
                                                               upload2.campus_id)]
    /\ last' = Op("")
    /\ UNCHANGED << image, image_seq, page, campus_id, images, grid, width,
                    position_edit_mode, drag, image_id, upload >>

\* its ImageUploadThread.run -> Image.save: the range check and the INSERT,
\* then upload_completed is emitted with the outcome
second_upload_insert ==
    /\ UNCHANGED << video_vars, campus_vars >>
    /\ upload2.pc = "allocated"
    /\ LET r == Image_save_insert(image, image_seq, upload2.campus_id,
                                  upload2.sort_order)
       IN  /\ image' = r.image
           /\ image_seq' = r.seq
           /\ upload2' = [upload2 EXCEPT !.pc = "completed", !.ok = r.ok,
                                         !.sort_order = 0]
           /\ last' = [Op("second_upload_insert") EXCEPT
                          !.kind = r.raised, !.ok = r.ok,
                          !.id = IF r.ok THEN r.seq ELSE 0,
                          !.to = upload2.sort_order]
    /\ UNCHANGED << page, campus_id, images, grid, width, position_edit_mode, drag,
                    image_id, upload >>

\* its on_upload_completed: the message box and the pages of that instance
second_on_upload_completed ==
    /\ UNCHANGED << video_vars, campus_vars >>
    /\ upload2.pc = "completed"
    /\ upload2' = IdleUpload
    /\ last' = Op("")
    /\ UNCHANGED << image, image_seq, page, campus_id, images, grid, width,
                    position_edit_mode, drag, image_id, upload >>

\* two image uploads into the same container that interleave
ConcurrentNext ==
    \/ \E c \in ImageCampuses, w \in Widths : show_image_index(c, w)
    \/ show_image_index_from("image_create")
    \/ show_campus_index
    \/ show_image_create
    \/ start_upload
    \/ ImageUploadThread_run
    \/ on_upload_completed
    \/ \E c \in ImageCampuses : second_start_upload(c)
    \/ second_upload_allocate
    \/ second_upload_insert
    \/ second_on_upload_completed

ConcurrentSpec == Init /\ [][ConcurrentNext]_vars

\* points of foreign drops: inside the second column or one past the fifth,
\* inside the first row or one past the eighth
ForeignDropXs == {margin_x + c * (card_width + spacing) + 5 : c \in {1, max_columns}}
ForeignDropYs == {margin_y + r * (card_height + spacing) + 5 :
                     r \in {0, get_max_rows(min_columns)}}

\* a session of uploads and drags on the image containers in which texts are
\* also dropped on the grid from outside the image cards
DropNext ==
    \/ \E c \in ImageCampuses, w \in Widths : show_image_index(c, w)
    \/ show_campus_index
    \/ upload.pc = "idle" /\ show_image_index_from("image_create")
    \/ show_image_create
    \/ start_upload
    \/ ImageUploadThread_run
    \/ on_upload_completed
    \/ toggle_position_edit_mode
    \/ \E cell \in DOMAIN image_cards : start_drag(cell)
    \/ drag_cancel
    \/ \E x \in DropXs, y \in DropYs : dropEvent(x, y)
    \/ \E payload \in ForeignPayloads, x \in ForeignDropXs, y \in ForeignDropYs :
           foreign_dropEvent(payload, x, y)

DropSpec == Init /\ [][DropNext]_vars

\* a session on the campus pages; a double click on a campus of type image
\* opens its image index
CampusNext ==
    \/ show_campus_create
    \/ \E name \in CampusNames, t \in CampusTypes : create_campus(name, t)
    \/ campus_back_to_index
    \/ \E c \in CampusIds : show_campus_edit(c)
    \/ \E name \in CampusNames, t \in CampusTypes : update_campus(name, t)
    \/ delete_campus
    \/ \E c \in CampusIds, w \in Widths :
           /\ \E r \in campuses : r.id = c /\ r.type = "image"
           /\ show_image_index(c, w)
    \/ show_campus_index

CampusSpec == Init /\ [][CampusNext]_vars

(***************************************************************************)
(* Claims.                                                                 *)
(***************************************************************************)
\* the positions the container of the last call held before the call (the
\* record the call created, if any, left out)
HeldBefore ==
    {image[i].sort_order : i \in RowsOfCampus(image, last.campus_id) \ {last.id}}

AllPositions == 1..max_cells

\* max + 1 while that is a position, else the lowest position not in used
AfterMaxOrLowestFree(used) ==
    IF used = {} THEN 1
    ELSE LET m == CHOOSE u \in used : \A v \in used : v <= u
         IN  IF m + 1 <= max_cells THEN m + 1
             ELSE CHOOSE p \in AllPositions \ used :
                      \A q \in AllPositions \ used : p <= q

\* C1: in every committed state of the image table, whatever creates
\* (explicit or allocated position), edit-saves and drag moves (at 2..5
\* columns) came before, every record's position is in 1..15 and no two
\* records of one container hold the same position
C1_CapacityInvariant ==
    \A i \in ImageRows(image) :
        /\ image[i].sort_order \in AllPositions
        /\ \A j \in ImageRows(image) :
              (i # j /\ image[i].campus_id = image[j].campus_id)
                  => image[i].sort_order # image[j].sort_order

\* C1 witness: a container of two records right after a committed drag move
\* on the 5-column grid
C1_Witness ==
    /\ last.op = "move_image" /\ last.kind = "simple" /\ last.ok
    /\ current_columns = max_columns
    /\ Cardinality(RowsOfCampus(image, campus_id)) = 2

\* C2: a drop of record Ra's card (cell of position a) on the cell of another
\* record Rb (position b) commits with Ra at b and Rb at a, every other
\* record as before
C2_SwapCommits ==
    [][ (/\ last'.op = "move_image"
         /\ last'.kind = "swap"
         /\ image_cards[position_to_cell(last'.to, current_columns)] # last'.id)
        => LET a == cell_to_position(drag.row, drag.col, current_columns)
               b == last'.to
               Ra == last'.id
               Rb == image_cards[position_to_cell(b, current_columns)]
           IN  image' = [image EXCEPT ![Ra].sort_order = b,
                                      ![Rb].sort_order = a] ]_vars

\* C3 as stated: a create with position 0, and next_position, give the lowest
\* position no record of the container holds
C3_FirstGap ==
    (last.op \in {"create_auto", "next_position"} /\ HeldBefore # AllPositions)
        => last.to = (CHOOSE p \in AllPositions \ HeldBefore :
                         \A q \in AllPositions \ HeldBefore : p <= q)

\* C3 amended: a create with position 0 into a container that is not full
\* commits, and the new record holds max + 1 (4 after {1,3}, 5 after {1,2,4});
\* it holds the lowest free position only when position 15 is taken
C3_AppendsAfterMax ==
    (last.op = "create_auto" /\ HeldBefore # AllPositions)
        => /\ last.ok
           /\ image[last.id] = [campus_id |-> last.campus_id,
                                sort_order |-> AfterMaxOrLowestFree(HeldBefore)]
           /\ (HeldBefore = {1, 3} => image[last.id].sort_order = 4)
           /\ (HeldBefore = {1, 2, 4} => image[last.id].sort_order = 5)

\* C3 witness: a create with position 0 into {1,3} stored the record at 4
C3_Witness ==
    /\ last.op = "create_auto"
    /\ HeldBefore = {1, 3}
    /\ last.ok
    /\ image[last.id].sort_order = 4

\* C4: on a container holding all of 1..15, next_position returns 1 and a
\* create with position 0 stores the 16th record at position 1
C4_OverflowAssignsOne ==
    /\ (last.op = "next_position" /\ HeldBefore = AllPositions) => last.to = 1
    /\ (last.op = "create_auto" /\ HeldBefore = AllPositions)
           => (last.ok /\ image[last.id].sort_order = 1)

\* C5: a drag move from cell A to cell B followed by the move from B to A
\* leaves every record at the position it had before the first move, for a
\* simple move as for a swap
C5_MoveRoundTrip ==
    [][ (last'.op = "move_image" /\ last'.kind \in {"simple", "swap"})
        => LET B == position_to_cell(last'.to, current_columns)
               back == move_image(image', image_cards', current_columns',
                                  B[1], B[2], drag.row, drag.col)
           IN  back.image = image ]_vars

\* C5 witness: a committed simple move
C5_Witness ==
    /\ last.op = "move_image" /\ last.kind = "simple" /\ last.ok
    /\ last.to \in AllPositions
    /\ image[last.id].sort_order = last.to

\* C6: a drag move of a record to an empty position p of 1..15 commits, sets
\* the record's position to p and changes no other record
C6_SimpleMoveFrame ==
    [][ (/\ last'.op = "move_image"
         /\ last'.kind = "simple"
         /\ last'.to \in AllPositions)
        => (/\ last'.ok
            /\ image[last'.id].sort_order =
                   cell_to_position(drag.row, drag.col, current_columns)
            /\ image' = [image EXCEPT ![last'.id].sort_order = last'.to]) ]_vars

\* C6 witness: a record moved to position 9 next to a record that stayed
C6_Witness ==
    /\ last.op = "move_image" /\ last.kind = "simple" /\ last.ok
    /\ last.to = 9
    /\ image[last.id].sort_order = 9
    /\ Cardinality(RowsOfCampus(image, campus_id)) = 2

\* C7: a resize writes nothing to either table; when it changes the column
\* count the cards are re-placed from the unchanged positions (position 9 is
\* cell (2,0) at 4 columns and cell (2,2) at 3 columns)
C7_ResizeStability ==
    [][ (last'.op \in {"resizeEvent", "video_resizeEvent"})
        => /\ image' = image /\ image_seq' = image_seq
           /\ video' = video /\ video_seq' = video_seq
           /\ (last'.op = "resizeEvent" /\ last'.kind = "relayout")
                  => /\ current_columns' # current_columns
                     /\ \A i \in RowsOfCampus(image, campus_id) :
                           LET cell == position_to_cell(image[i].sort_order,
                                                        current_columns')
                           IN  /\ cell \in DOMAIN image_cards'
                               /\ image_cards'[cell] = i
           /\ (last'.op = "video_resizeEvent" /\ last'.kind = "relayout")
                  => /\ vgrid'.current_columns # vgrid.current_columns
                     /\ \A k \in DOMAIN vgrid'.video_cards :
                           LET card == vgrid'.video_cards[k]
                           IN  /\ video[card.id] # NoRow
                               /\ card.sort_order = video[card.id].sort_order
                               /\ << card.row, card.col >> =
                                      position_to_cell(k, vgrid'.current_columns)
           /\ position_to_cell(9, 4) = << 2, 0 >>
           /\ position_to_cell(9, 3) = << 2, 2 >> ]_vars

\* C7 witness: the video grid re-laid out at 3 columns over a record at 9
C7_Witness ==
    /\ last.op = "video_resizeEvent" /\ last.kind = "relayout"
    /\ vgrid.current_columns = 3
    /\ \E i \in VideoRows(video) : video[i].sort_order = 9

\* C8: for 2..5 columns, a position of 1..columns*max_rows rendered to its
\* cell and read back is the same position, and a cell (col < columns) read
\* as a position and rendered is the same cell
C8_LayoutInverse ==
    /\ last.op = "render_then_drop" => last.back = last.sort_order
    /\ last.op = "drop_then_render" => last.back = << last.row, last.col >>

\* C8 witness: position 15 of the 5-column grid, from cell (2,4) and back
C8_Witness ==
    /\ last.op = "drop_then_render"
    /\ last.columns = max_columns
    /\ << last.row, last.col >> = << 2, 4 >>
    /\ last.sort_order = 15

\* C9: next_position of a container that is not full is 1 when it is empty,
\* max + 1 when that is at most 15, else the lowest position of 1..15 that
\* no record of the container holds
C9_NextPosition ==
    (last.op = "next_position" /\ HeldBefore # AllPositions)
        => last.to = AfterMaxOrLowestFree(HeldBefore)

\* C9 witness: position 15 is held, and the lowest free position is returned
C9_Witness ==
    /\ last.op = "next_position"
    /\ max_cells \in HeldBefore
    /\ HeldBefore # AllPositions
    /\ last.to \notin HeldBefore
    /\ last.to < max_cells

\* C10: Image.save of a new or an existing record whose position ends up
\* outside 1..15 (0 on an existing record included) raises ValueError and
\* the image table is as it was
C10_SaveValidation ==
    [][ (/\ last'.op \in {"create_auto", "create_explicit", "update"}
         /\ last'.to \notin AllPositions)
        => (/\ last'.kind = "ValueError"
            /\ ~last'.ok
            /\ image' = image
            /\ image_seq' = image_seq) ]_vars

\* C10 witness: position 0 saved on an existing record was refused
C10_Witness ==
    /\ last.op = "update"
    /\ last.to = 0
    /\ last.kind = "ValueError"
    /\ image[last.id] # NoRow

\* C11: after any creates, edit-saves, moves and deletes every stored image
\* and video record has a position of at least 1; 0 is never persisted
C11_PositionsAtLeastOne ==
    /\ \A i \in ImageRows(image) : image[i].sort_order >= 1
    /\ \A i \in VideoRows(video) : video[i].sort_order >= 1

\* the cells of the image grid stand for the positions 1..15, one cell each:
\* a card of the record the list holds at the position, or else an EmptyCell
GridPartitionsPositions ==
    /\ \A p \in AllPositions :
           LET cell == position_to_cell(p, current_columns)
               rec == find_image_by_sort_order(images, p)
           IN  IF rec # NoRow
               THEN /\ cell \in DOMAIN image_cards
                    /\ image_cards[cell] = rec.id
                    /\ cell \notin DOMAIN empty_cells
               ELSE /\ cell \in DOMAIN empty_cells
                    /\ empty_cells[cell] = p
                    /\ cell \notin DOMAIN image_cards
    /\ \A cell \in DOMAIN image_cards \cup DOMAIN empty_cells :
           /\ cell[2] \in 0..(current_columns - 1)
           /\ cell_to_position(cell[1], cell[2], current_columns) \in AllPositions

\* C12 as stated: whenever the image grid has been built from the record
\* list of a container (0 to 15 records, 2..5 columns), every position 1..15
\* has exactly one cell, occupied or explicitly empty
C12_GridPartition ==
    campus_id # 0 => GridPartitionsPositions

\* C12 amended: the partition holds whenever the list has at least one
\* record; for an empty list the grid holds no cell at all
C12_GridPartitionNonEmpty ==
    campus_id # 0 =>
        IF images # << >>
        THEN GridPartitionsPositions
        ELSE image_cards = NoCells /\ empty_cells = NoCells

\* C12 witness: a container of 13 records drawn at 4 columns, with an
\* EmptyCell at a free position
C12_Witness ==
    /\ Len(images) = max_cells - MaxMissing
    /\ current_columns = 4
    /\ Cardinality(DOMAIN image_cards) = max_cells - MaxMissing
    /\ Cardinality(DOMAIN empty_cells) = MaxMissing

\* C13: a drop whose source cell shows no card (the grid was re-laid out
\* while the drag was under way) writes nothing to the store and leaves the
\* record list and the cells of the grid as they were
C13_MoveFromEmptyCell ==
    [][ (last'.op = "move_image" /\ last'.kind = "none")
        => /\ image' = image /\ image_seq' = image_seq
           /\ images' = images /\ grid' = grid
           /\ last'.ok ]_vars

\* C13 witness: such a drop in position edit mode, on a grid showing a card
C13_Witness ==
    /\ last.op = "move_image" /\ last.kind = "none"
    /\ position_edit_mode
    /\ image_cards # NoCells

\* C14: after a drag move whose store write raised, the cards of the grid
\* are those of the records the store holds at that moment, each at the
\* cell of its stored position, also when a background upload committed
\* after the grid was last loaded
C14_FailureReconciles ==
    [][ (last'.op = "move_image" /\ ~last'.ok)
        => LET stored == Image_get_by_campus_id(image', campus_id)
           IN  grid' = display_images(stored, width, current_columns) ]_vars

\* C15: a committed drag move ends, within the handler of the drop, with
\* the record list reloaded from the store and the grid rebuilt from it:
\* every card at cell (row, col) is the card of the record stored at
\* position row * current_columns + col + 1
C15_RebuildAfterCommit ==
    [][ (last'.op = "move_image" /\ last'.kind \in {"simple", "swap"} /\ last'.ok)
        => /\ images' = Image_get_by_campus_id(image', campus_id)
           /\ \A i \in RowsOfCampus(image', campus_id) :
                  position_to_cell(image'[i].sort_order, current_columns')
                      \in DOMAIN image_cards'
           /\ \A cell \in DOMAIN image_cards' :
                  /\ image'[image_cards'[cell]] # NoRow
                  /\ image'[image_cards'[cell]].sort_order =
                         cell_to_position(cell[1], cell[2], current_columns') ]_vars

\* C15 witness: after a committed move the card of the moved record is at
\* the cell of its new position
C15_Witness ==
    /\ last.op = "move_image" /\ last.ok /\ last.kind = "simple"
    /\ position_to_cell(last.to, current_columns) \in DOMAIN image_cards
    /\ image_cards[position_to_cell(last.to, current_columns)] = last.id
    /\ images = Image_get_by_campus_id(image, campus_id)

\* C16: no step changes the type of a campus that exists before and after it
C16_KindImmutable ==
    [][ \A c \in CampusRows(campus) \cap CampusRows(campus') :
            campus'[c].type = campus[c].type ]_vars

\* C17: a delete of an image or a video record removes that row and leaves
\* every other row of both tables, positions included, as it was; no record
\* takes the freed position
C17_DeleteKeepsPositions ==
    [][ /\ (last'.op = "delete_image")
            => /\ image[last'.id] # NoRow
               /\ image' = [image EXCEPT ![last'.id] = NoRow]
               /\ video' = video
               /\ \A i \in RowsOfCampus(image', image[last'.id].campus_id) :
                      image'[i].sort_order # image[last'.id].sort_order
        /\ (last'.op \in {"confirm_and_delete_video", "delete_video"})
            => /\ video[last'.id] # NoRow
               /\ video' = [video EXCEPT ![last'.id] = NoRow]
               /\ image' = image ]_vars

\* C17 witness: the record at position 1 was deleted, the record at
\* position 2 is still at 2 and position 1 is free
C17_Witness ==
    /\ last.op = "delete_image"
    /\ image[last.id] = NoRow
    /\ {image[i].sort_order : i \in RowsOfCampus(image, campus_id)} = {2}

\* C18: a resize whose width gives the column count the grid already has
\* rebuilds nothing and touches no record: the image grid (image_cards,
\* empty_cells, current_columns), the loaded list and the image table are
\* unchanged, and so are the video grid and the video table
C18_ResizeSameColumnsNoOp ==
    [][ /\ (last'.op = "resizeEvent"
             /\ calculate_responsive_columns(width') = current_columns)
            => UNCHANGED << grid, images, image, image_seq >>
        /\ (last'.op = "video_resizeEvent"
             /\ calculate_responsive_columns(width') = vgrid.current_columns)
            => UNCHANGED << vgrid, video, video_seq >> ]_vars

\* a resize that kept the column count of a grid with cards, while the store
\* holds a record the loaded list lacks
C18_Witness ==
    /\ last.op = "resizeEvent"
    /\ last.kind = ""
    /\ images # << >>
    /\ calculate_responsive_columns(width) = current_columns
    /\ Image_get_by_campus_id(image, campus_id) # images

\* C19: every card of the video grid sits at the cell its position stands
\* for under the current column count: position = row * columns + col + 1
C19_VideoCanonicalMapping ==
    \A k \in DOMAIN vgrid.video_cards :
        LET card == vgrid.video_cards[k]
        IN  card.sort_order =
                cell_to_position(card.row, card.col, vgrid.current_columns)

\* C20: after uploads with allocated positions and drags, no two records
\* of a video container hold the same position
C20_VideoPositionsUnique ==
    \A c \in VideoCampuses :
        \A i, j \in VideosOfCampus(video, c) :
            i # j => video[i].sort_order # video[j].sort_order

\* C21: a drop of the video record A on the cell where the card of a
\* different record B is displayed exchanges the two positions: afterwards A
\* holds the position B held and B holds the position A held
C21_VideoSwap ==
    [][ (last'.op = "update_video_order" /\ last'.kind = "")
        => \A k \in DOMAIN vgrid.video_cards :
              LET B == vgrid.video_cards[k]
              IN  (/\ B.id # last'.id
                   /\ cell_to_position(B.row, B.col, vgrid.current_columns)
                          = last'.to)
                  => /\ video'[last'.id].sort_order = video[B.id].sort_order
                     /\ video'[B.id].sort_order = video[last'.id].sort_order ]_vars

\* C22: a thumbnail generation that meets a decode error never blocks the
\* video upload: the run goes on to the insert, and a run that got past the
\* thumbnail ends with a record inserted and a completion signal of success
C22_DecodeErrorNeverBlocks ==
    [][ /\ (last'.op = "generate_thumbnail" /\ last'.kind = "decode_error")
            => vupload'.pc = "thumbnailed"
        /\ (vupload.pc \in {"thumbnailed", "allocated"}
             /\ vupload'.pc = "completed")
            => (vupload'.ok /\ video_seq' = video_seq + 1) ]_vars

\* C23: when the image edit view is opened for an id that has no row, the
\* application ends up back on the image index view
C23_NotFoundBackToIndex ==
    (last.op = "show_image_edit" /\ ~last.ok) => page = "image_index"

\* C24: a started upload thread of either kind writes the store at most
\* once, with the step that signals success; a failure signal comes with no
\* insert; a running thread is never dropped without a signal and every run
\* reaches its completion signal
C24_UploadThreadProtocol ==
    /\ [][ /\ (image' # image \/ image_seq' # image_seq)
               => /\ upload.pc \in {"running", "allocated"}
                  /\ upload'.pc = "completed" /\ upload'.ok
                  /\ image_seq' = image_seq + 1
                  /\ image[image_seq'] = NoRow /\ image'[image_seq'] # NoRow
                  /\ \A i \in ImageIds \ {image_seq'} : image'[i] = image[i]
           /\ (upload.pc # "completed" /\ upload'.pc = "completed")
               => /\ upload.pc \in {"running", "allocated"}
                  /\ upload'.ok <=> image' # image
           /\ upload.pc \in {"running", "allocated"}
               => upload'.pc \in {"running", "allocated", "completed"}
           /\ (video' # video \/ video_seq' # video_seq)
               => /\ vupload.pc \in {"running", "thumbnailed", "allocated"}
                  /\ vupload'.pc = "completed" /\ vupload'.ok
                  /\ video_seq' = video_seq + 1
                  /\ video[video_seq'] = NoRow /\ video'[video_seq'] # NoRow
                  /\ \A i \in VideoIds \ {video_seq'} : video'[i] = video[i]
           /\ (vupload.pc # "completed" /\ vupload'.pc = "completed")
               => /\ vupload.pc \in {"running", "thumbnailed", "allocated"}
                  /\ vupload'.ok <=> video' # video
           /\ vupload.pc \in {"running", "thumbnailed", "allocated"}
               => vupload'.pc \in {"running", "thumbnailed", "allocated",
                                   "completed"} ]_vars
    /\ (upload.pc \in {"running", "allocated"}) ~> (upload.pc = "completed")
    /\ (vupload.pc \in {"running", "thumbnailed", "allocated"})
           ~> (vupload.pc = "completed")

\* a video run that ended with a success signal and its record, not yet
\* handled, after the user went back to the index while the thread ran
C24_Witness ==
    /\ vupload.pc = "completed" /\ vupload.ok
    /\ last.op = "video_upload_insert"
    /\ video[video_seq] # NoRow
    /\ page = "video_index"

\* C25: under the column count of the image grid, every cell the hit test
\* accepts as a drop target stands for a position in 1..15, and a move never
\* has a target position above 15
C25_DropTargetsWithinCapacity ==
    [][ /\ \A x \in DropXs, y \in DropYs :
              LET target == get_grid_position_from_point(x, y, current_columns')
              IN  target # << -1, -1 >>
                  => cell_to_position(target[1], target[2], current_columns')
                        \in 1..max_cells
        /\ (last'.op = "move_image" /\ last'.kind # "none")
              => last'.to \in 1..max_cells ]_vars

C28_ConcurrentCreates ==
    [][ /\ \A i, j \in ImageRows(image') :
              (i # j /\ image'[i].campus_id = image'[j].campus_id)
              => image'[i].sort_order # image'[j].sort_order
        /\ (/\ upload.pc = "allocated" /\ upload2.pc = "allocated"
            /\ upload.campus_id = upload2.campus_id
            /\ upload.sort_order = upload2.sort_order)
           => /\ (upload'.pc = "completed"
                  => upload'.ok /\ image_seq' = image_seq + 1)
              /\ (upload2'.pc = "completed"
                  => upload2'.ok /\ image_seq' = image_seq + 1)
        /\ (/\ upload.pc = "allocated" /\ upload'.pc = "completed"
            /\ \E i \in RowsOfCampus(image, upload.campus_id) :
                   image[i].sort_order = upload.sort_order)
           => (~upload'.ok /\ image' = image /\ image_seq' = image_seq)
        /\ (/\ upload2.pc = "allocated" /\ upload2'.pc = "completed"
            /\ \E i \in RowsOfCampus(image, upload2.campus_id) :
                   image[i].sort_order = upload2.sort_order)
           => (~upload2'.ok /\ image' = image /\ image_seq' = image_seq)
      ]_vars

\* both uploads had allocated the same position; the first INSERT succeeded
\* and the second one has just been refused
C28_Witness ==
    /\ last.op \in {"upload_insert", "second_upload_insert"}
    /\ last.kind = "IntegrityError"
    /\ upload.pc = "completed" /\ upload2.pc = "completed"
    /\ upload.ok # upload2.ok
    /\ Cardinality(ImageRows(image)) = 1

\* C29: the record whose stored position a drop on the image grid changes
\* is the record named in the drag payload, the card the drag started on
C29_DropMovesDraggedRecord ==
    [][ (last'.op = "move_image" /\ image' # image)
        => /\ last'.id = drag.image_id
           /\ image'[drag.image_id] # image[drag.image_id] ]_vars

\* C30: a drop on the image grid changes stored positions only if
\* position_edit_mode is on, the payload is an image drag of four fields
\* and the drop point is in a valid cell; every other drop is ignored and
\* leaves the table, the loaded list and the grid unchanged
C30_MovesOnlyOnValidatedDrop ==
    [][ /\ last'.op = "move_image"
            => /\ position_edit_mode
               /\ drag # NoDrag
               /\ \E x \in DropXs, y \in DropYs :
                     LET target == get_grid_position_from_point(x, y,
                                                                current_columns)
                     IN  /\ target # << -1, -1 >>
                         /\ last'.kind # "none"
                             => last'.to = cell_to_position(target[1], target[2],
                                                            current_columns)
        /\ last'.op = "drop_ignored"
            => UNCHANGED << image, image_seq, images, grid >>
        /\ last'.op = "foreign_drop"
            => LET validated ==
                      /\ position_edit_mode
                      /\ last'.payload.hasText /\ last'.payload.image_prefix
                      /\ last'.payload.parts = 4
                      /\ get_grid_position_from_point(last'.x, last'.y,
                                                      current_columns)
                            # << -1, -1 >>
               IN  /\ ~validated
                       => /\ last'.kind = "ignored"
                          /\ UNCHANGED << image, image_seq, images, grid >>
                   /\ image' # image => validated
      ]_vars

\* a text of three fields was dropped on a valid cell in position edit mode
\* and was ignored
C30_Witness ==
    /\ last.op = "foreign_drop"
    /\ last.kind = "ignored"
    /\ position_edit_mode
    /\ last.payload.image_prefix /\ last.payload.parts = 3
    /\ get_grid_position_from_point(last.x, last.y, current_columns) # << -1, -1 >>
    /\ image_cards # NoCells

====
